---- MODULE Spec2Model ----
(***************************************************************************)
(* Compile: the page collection of the workspace application (App), its    *)
(* undo/redo history, the save indicator, and the debounced write-through  *)
(* of PersistenceService (savePage / deletePage) to the document store.    *)
(*                                                                         *)
(* Strings are sequences of one-character strings.  Page ids, block ids    *)
(* and timer handles are positive integers; 0 stands for null/undefined.   *)
(* Time is not measured: an armed timer may fire at any later step, which  *)
(* covers every delay the code passes to setTimeout (0, 100, 5000 ms).     *)
(***************************************************************************)
EXTENDS Integers, Sequences, FiniteSets, TLC

VARIABLES
    pages,          \* App: useState<Page[]>, the in-memory page collection
    activePageId,   \* App: useState<string|null>, 0 = null
    navPending,     \* App: the setTimeout(0) of handleDeletePage is armed
    undoStack,      \* App: useState<Page[][]>
    redoStack,      \* App: useState<Page[][]>
    saveStatus,     \* App: 'saved' | 'unsaved' | 'saving'
    clock,          \* Date.now(), read by handlePageSelect
    nextUuid,       \* next value of crypto.randomUUID()
    focusedBlockId, \* BlockEditor: useState<string|null>, 0 = null
    slashMenuOpen,  \* BlockEditor: useState(false)
    slashMenuIndex, \* BlockEditor: useState<number>(-1), counted from 0
    collapsedBlocks, \* BlockEditor: the ids of the collapsed headings
    suggestion,     \* BlockEditor: the suggestNextBlock promise not yet settled
    currentWorkspace, \* App: useState<Workspace|null>, by its id
    fetching,       \* App: the fetchPages calls of loadWorkspaceData not yet settled
    debounces,      \* PersistenceService.debounces: key -> timer handle
    timers,         \* armed setTimeout callbacks of savePage
    inflight,       \* setDoc calls awaiting the document store
    deletes,        \* history: the page ids deletePage was called with
    deleteDocs,     \* deleteDoc calls awaiting the document store
    nextTimer,      \* next timer handle
    remote,         \* the document store: page id -> stored record
    cache,          \* localStorage: workspace id -> the item pages_<workspace id>
    writeLog,       \* history: every setDoc issued, in order
    burst,          \* history: per key, the current run of savePage calls
    afterFail,      \* history: per key, the failed write no save or write has followed
    lastOp,         \* history: the operation that produced this state
    lastKey         \* history: the latest editor event and the blocks it found

vars == <<pages, activePageId, navPending, undoStack, redoStack, saveStatus,
          clock, nextUuid, focusedBlockId, slashMenuOpen, slashMenuIndex,
          collapsedBlocks, suggestion, debounces, timers, inflight, deletes, deleteDocs,
          nextTimer,
          remote, cache, writeLog, burst, afterFail, lastOp, lastKey,
          currentWorkspace, fetching>>

localVars == <<pages, activePageId, navPending, undoStack, redoStack, clock, nextUuid>>
syncVars  == <<debounces, timers, inflight, deletes, deleteDocs, nextTimer, remote,
               cache>>
editorVars == <<focusedBlockId, slashMenuOpen, slashMenuIndex, collapsedBlocks, suggestion>>
workspaceVars == <<currentWorkspace, fetching>>

----------------------------------------------------------------------------
(* Bounds of the model *)

\* the workspaces the user belongs to
Workspaces == 2

MaxUuid    == 10    \* ids handed out by crypto.randomUUID()
MaxTimers  == 8     \* timer handles handed out by setTimeout
MaxClock   == 1     \* readings of Date.now()
MaxContent == 3     \* characters typed into one block
MaxBlocks  == 2     \* blocks of a page reached by the editing actions
SyncPages  == 1     \* pages created in the synchronisation specification
SyncSaves  == 4     \* savePage calls in the synchronisation specification
CoalesceSaves == 5  \* savePage calls in the coalescing specification
TreePages  == 4     \* pages created in the document tree specification
TreeOps    == 5     \* user operations in the document tree specification
TitleEdits == 1     \* edits applied in the title specification
MirrorOps  == 2     \* operations applied in the reference specification
EditorEdits == 1    \* block edits applied in the editor specification
Capacity   == 2     \* the configured maximum of blocks of a page, scaled down
CollapseLen == 4    \* blocks of a page in the rendering specification

(* Program constants *)

HistoryCap == 50

----------------------------------------------------------------------------
(* Strings *)

Untitled       == <<"U", "n", "t", "i", "t", "l", "e", "d">>
UntitledFolder == <<"U", "n", "t", "i", "t", "l", "e", "d", " ", "F">>

\* the no-break space U+00A0, one character
Nbsp == "nbsp"

\* the grave accent U+0060, one character
Backtick == "grave"

Whitespace == {" ", Nbsp}

RECURSIVE TrimStart(_)
TrimStart(s) ==
    IF s = <<>> THEN <<>>
    ELSE IF Head(s) \in Whitespace THEN TrimStart(Tail(s)) ELSE s

RECURSIVE TrimEnd(_)
TrimEnd(s) ==
    IF s = <<>> THEN <<>>
    ELSE IF s[Len(s)] \in Whitespace THEN TrimEnd(SubSeq(s, 1, Len(s) - 1)) ELSE s

Trim(s) == TrimEnd(TrimStart(s))

\* the rest of s after the first ">", or nothing when s has no ">"
RECURSIVE SkipTag(_)
SkipTag(s) ==
    IF s = <<>> THEN <<>>
    ELSE IF Head(s) = ">" THEN Tail(s) ELSE SkipTag(Tail(s))

\* s.replace(/<[^>]*>?/gm, '')
RECURSIVE StripTags(_)
StripTags(s) ==
    IF s = <<>> THEN <<>>
    ELSE IF Head(s) = "<" THEN StripTags(SkipTag(Tail(s)))
    ELSE <<Head(s)>> \o StripTags(Tail(s))

----------------------------------------------------------------------------
(* Sequences as arrays *)

Range(s) == {s[i] : i \in DOMAIN s}

\* Array.prototype.find on the page collection; NoPage when absent
NoPage == [id |-> 0]

FindPage(ps, id) ==
    IF \E i \in DOMAIN ps : ps[i].id = id
    THEN ps[CHOOSE i \in DOMAIN ps : ps[i].id = id /\ \A j \in 1..(i - 1) : ps[j].id # id]
    ELSE NoPage

HasPage(ps, id) == \E i \in DOMAIN ps : ps[i].id = id

PageIdsOf(ps) == {ps[i].id : i \in DOMAIN ps}

\* no slice at all
LastNAll(s, n) == s

\* Array.prototype.slice(-n)
LastN(s, n) == IF Len(s) <= n THEN s ELSE SubSeq(s, Len(s) - n + 1, Len(s))

\* Array.prototype.slice(0, -1)
DropLast(s) == SubSeq(s, 1, Len(s) - 1)

----------------------------------------------------------------------------
(* Blocks and pages (types.ts) *)

Text      == "text"
Heading1  == "h1"
Heading2  == "h2"
Heading3  == "h3"
Heading4  == "h4"
Heading5  == "h5"
Heading6  == "h6"
Todo      == "todo"
Bullet    == "bullet"
Number    == "number"
Quote     == "quote"
Divider   == "divider"
Toggle    == "toggle"
Code      == "code"
Callout   == "callout"
Image     == "image"
File      == "file"
PageEmbed == "page"
PageLink  == "page-link"

BlockTypes ==
    {Text, Heading1, Heading2, Heading3, Heading4, Heading5, Heading6, Todo, Bullet,
     Number, Quote, Divider, Toggle, Code, Callout, Image, File, PageEmbed, PageLink}

\* pageId = 0: the block has no pageId
Block(id, type, content, pageId) ==
    [id |-> id, type |-> type, content |-> content, pageId |-> pageId]

\* the page literal of handleAddPage and handleCreateFolder
NewPage(id, blockId, title, parentId, type) ==
    [id |-> id, title |-> title,
     blocks |-> <<Block(blockId, Heading1, title, 0)>>,
     parentId |-> parentId, childIds |-> <<>>,
     isFavorite |-> FALSE, isExpanded |-> TRUE, lastOpenedAt |-> 0, type |-> type,
     workspaceId |-> currentWorkspace]

IsReferenceToEmbedOnly(b, pageId) == b.type = PageEmbed /\ b.pageId = pageId

IsReferenceTo(b, pageId) ==
    (b.type = PageEmbed /\ b.pageId = pageId) \/ (b.type = PageLink /\ b.pageId = pageId)

\* newBlocks.find(b => b.type === BlockType.Heading1), as an index; 0 when absent
FirstH1Index(blocks) ==
    IF \E i \in DOMAIN blocks : blocks[i].type = Heading1
    THEN CHOOSE i \in DOMAIN blocks :
            blocks[i].type = Heading1 /\ \A j \in 1..(i - 1) : blocks[j].type # Heading1
    ELSE 0

\* the title computed by updateActivePageBlocks
DeriveTitle(newBlocks) ==
    LET i        == FirstH1Index(newBlocks)
        rawTitle == IF i # 0 /\ Trim(newBlocks[i].content) # <<>>
                    THEN newBlocks[i].content ELSE Untitled
        stripped == Trim(StripTags(rawTitle))
    IN  IF stripped # <<>> THEN stripped ELSE Untitled

\* blocks.map(b => reference to pageId ? { ...b, content: title } : b)
RetitleReferences(blocks, pageId, title) ==
    [i \in DOMAIN blocks |->
        IF IsReferenceTo(blocks[i], pageId)
        THEN [blocks[i] EXCEPT !.content = title] ELSE blocks[i]]

\* the updater updateActivePageBlocks passes to saveToHistory
UpdateBlocksUpdater(currentPages, pageId, newBlocks) ==
    LET newTitle == DeriveTitle(newBlocks)
        F(p) == IF p.id = pageId
                THEN [p EXCEPT !.blocks = newBlocks, !.title = newTitle]
                ELSE [p EXCEPT !.blocks = RetitleReferences(p.blocks, pageId, newTitle)]
    IN  [i \in DOMAIN currentPages |-> F(currentPages[i])]

\* the updater handleAddPage passes to saveToHistory
ExpandedParentNoLink(p, newPageId) == [p EXCEPT !.isExpanded = TRUE]

ExpandedParent(p, newPageId) ==
    [p EXCEPT !.isExpanded = TRUE, !.childIds = Append(p.childIds, newPageId)]

AddPageUpdater(currentPages, newPage, parentId) ==
    LET updatedPages == Append(currentPages, newPage)
        F(p) == IF p.id = parentId THEN ExpandedParent(p, newPage.id) ELSE p
    IN  IF parentId # 0 THEN [i \in DOMAIN updatedPages |-> F(updatedPages[i])]
        ELSE updatedPages

\* newName.trim() || 'Untitled'
Sanitize(newName) == IF Trim(newName) # <<>> THEN Trim(newName) ELSE Untitled

\* the updater handleRenamePage passes to saveToHistory; uuid is the id of
\* the Heading1 block it creates when the page does not start with one
RenameUpdater(currentPages, pageId, sanitizedName, uuid) ==
    LET F(p) ==
          IF p.id = pageId
          THEN LET hasH1 == Len(p.blocks) > 0 /\ p.blocks[1].type = Heading1
                   updatedBlocks ==
                       IF hasH1 THEN [p.blocks EXCEPT ![1].content = sanitizedName]
                       ELSE <<Block(uuid, Heading1, sanitizedName, 0)>> \o p.blocks
               IN  [p EXCEPT !.title = sanitizedName, !.blocks = updatedBlocks]
          ELSE [p EXCEPT !.blocks = RetitleReferences(p.blocks, pageId, sanitizedName)]
    IN  [i \in DOMAIN currentPages |-> F(currentPages[i])]

\* the page handleRenamePage hands to savePage, built from the rendered pages
RenamedPageToSave(page, sanitizedName) ==
    [page EXCEPT !.title = sanitizedName,
                 !.blocks = [i \in DOMAIN page.blocks |->
                                IF i = 1 /\ page.blocks[i].type = Heading1
                                THEN [page.blocks[i] EXCEPT !.content = sanitizedName]
                                ELSE page.blocks[i]]]

\* getIdsToDelete: the page, then the ids collected from each child in turn
RECURSIVE FlattenIds(_, _, _)
RECURSIVE getIdsToDelete(_, _)
FlattenIds(childIds, allPages, i) ==
    IF i > Len(childIds) THEN <<>>
    ELSE getIdsToDelete(childIds[i], allPages) \o FlattenIds(childIds, allPages, i + 1)

getIdsToDeleteShallow(pageId, allPages) ==
    IF ~HasPage(allPages, pageId) THEN <<>>
    ELSE <<pageId>> \o FindPage(allPages, pageId).childIds

getIdsToDelete(pageId, allPages) ==
    IF ~HasPage(allPages, pageId) THEN <<>>
    ELSE <<pageId>> \o FlattenIds(FindPage(allPages, pageId).childIds, allPages, 1)

\* getIdsToDelete(pageId, allPages) has calls nested more than depth deep
RECURSIVE CallsDeeperThan(_, _, _)
CallsDeeperThan(pageId, allPages, depth) ==
    /\ HasPage(allPages, pageId)
    /\ \/ depth = 0
       \/ \E childId \in Range(FindPage(allPages, pageId).childIds) :
              CallsDeeperThan(childId, allPages, depth - 1)

\* the recursion of getIdsToDelete keeps no set of the pages it visited: with
\* more nested calls than pages, one page is on the stack twice, the calls
\* never return and the stack overflows (RangeError)
StackOverflows(pageId, allPages) == CallsDeeperThan(pageId, allPages, Len(allPages))

\* the updater handleDeletePage passes to saveToHistory
DeleteUpdater(currentPages, id) ==
    LET idsToDelete  == Range(getIdsToDelete(id, currentPages))
        updatedPages == SelectSeq(currentPages, LAMBDA p : p.id \notin idsToDelete)
        pageToDelete == FindPage(currentPages, id)
        F(p) == IF p.id = pageToDelete.parentId
                THEN [p EXCEPT !.childIds = SelectSeq(p.childIds, LAMBDA cid : cid # id)]
                ELSE p
    IN  IF HasPage(currentPages, id) /\ pageToDelete.parentId # 0
        THEN [i \in DOMAIN updatedPages |-> F(updatedPages[i])] ELSE updatedPages

ToggleFavoriteUpdater(currentPages, id) ==
    [i \in DOMAIN currentPages |->
        IF currentPages[i].id = id
        THEN [currentPages[i] EXCEPT !.isFavorite = ~currentPages[i].isFavorite]
        ELSE currentPages[i]]

PageSelectUpdater(currentPages, id, now) ==
    [i \in DOMAIN currentPages |->
        IF currentPages[i].id = id
        THEN [currentPages[i] EXCEPT !.lastOpenedAt = now] ELSE currentPages[i]]

----------------------------------------------------------------------------
(* PersistenceService: the debounce map, the timers and the history kept   *)
(* about them, threaded through the savePage calls of one handler          *)

\* one debounce key for all the pages of a workspace
DebounceKeyShared(workspaceId, pageId) == (workspaceId - 1) * MaxUuid + 1

\* the debounce key `${workspaceId}_${page.id}`, which also stands for the
\* document workspaces/<workspaceId>/pages/<page.id>; in workspace 1 it is the
\* page id
DebounceKey(workspaceId, pageId) == (workspaceId - 1) * MaxUuid + pageId

Keys == 1..(Workspaces * MaxUuid)

\* the documents of workspaces/<workspaceId>/pages, as getDocs returns them
RECURSIVE StoredUpTo(_, _)
StoredUpTo(workspaceId, pageId) ==
    IF pageId = 0 THEN <<>>
    ELSE StoredUpTo(workspaceId, pageId - 1)
         \o (IF remote[DebounceKey(workspaceId, pageId)] = NoPage THEN <<>>
             ELSE <<remote[DebounceKey(workspaceId, pageId)]>>)

FetchPages(workspaceId) == StoredUpTo(workspaceId, MaxUuid)

\* localStorage.getItem returned null
NoCache == [present |-> FALSE, pages |-> <<>>]

\* the items of localStorage once fetchPages has returned the pages of the
\* current workspace: no other workspace was ever loaded in this browser
LoadedCache ==
    [w \in 1..Workspaces |->
        IF w = currentWorkspace THEN [present |-> TRUE, pages |-> FetchPages(w)]
        ELSE NoCache]

\* savePage: pages[index] = page when findIndex finds the id, pages.push(page)
\* otherwise
Upsert(cachedPages, page) ==
    IF \E i \in DOMAIN cachedPages : cachedPages[i].id = page.id
    THEN LET index == CHOOSE i \in DOMAIN cachedPages :
                         /\ cachedPages[i].id = page.id
                         /\ \A j \in 1..(i - 1) : cachedPages[j].id # page.id
         IN  [cachedPages EXCEPT ![index] = page]
    ELSE Append(cachedPages, page)

\* savePage: the item is rewritten only if (cached)
CacheAfterSave(c, workspaceId, page) ==
    IF c[workspaceId].present
    THEN [c EXCEPT ![workspaceId].pages = Upsert(@, page)]
    ELSE c

PState == [debounces |-> debounces, timers |-> timers, nextTimer |-> nextTimer,
           burst |-> burst, afterFail |-> afterFail, cache |-> cache]

\* first and tid are the handles of the timers armed by the first and by the
\* latest savePage call of the run; writes counts the timers of the run that fired
NoBurst == [clean |-> FALSE, n |-> 0, writes |-> 0, page |-> NoPage, wpage |-> NoPage,
            first |-> 0, tid |-> 0]

NoFail == [st |-> "none", at |-> 0]

ArmedFor(ts, key) == {t \in ts : t.key = key}

InFlightFor(key) == {w \in inflight : w.key = key}

\* clearTimeout(this.debounces.get(debounceKey)) when the map has the key
ClearTimeout(ps, key) ==
    IF key \in DOMAIN ps.debounces
    THEN {t \in ps.timers : t.id # ps.debounces[key]}
    ELSE ps.timers

\* the run of savePage calls for a key: it starts with a call that finds no
\* write in flight for the key and the timer of the previous call fired or
\* cancelled, and continues with the calls that arrive, no write in flight,
\* before the timer of the previous call has fired
NextBurst(ps, page) ==
    LET key == DebounceKey(currentWorkspace, page.id)
        b   == ps.burst[key]
        previousArmed == \E t \in ps.timers : t.key = key /\ t.id = b.tid
    IN  IF ~previousArmed /\ InFlightFor(key) = {}
        THEN [clean |-> TRUE, n |-> 1, writes |-> 0, page |-> page, wpage |-> NoPage,
              first |-> ps.nextTimer, tid |-> ps.nextTimer]
        ELSE IF b.clean /\ previousArmed /\ InFlightFor(key) = {}
        THEN [b EXCEPT !.n = b.n + 1, !.page = page, !.tid = ps.nextTimer]
        ELSE [NoBurst EXCEPT !.page = page, !.tid = ps.nextTimer]

\* savePage(workspaceId, page, debounceMs); cont names what the caller chained
\* on the returned promise: "edit" (.then of updateActivePageBlocks),
\* "manual" (await of handleManualSave) or "none"
SavePage(ps, page, cont) ==
    LET key == DebounceKey(currentWorkspace, page.id)
        t   == [id |-> ps.nextTimer, key |-> key, page |-> page, cont |-> cont,
                workspaceId |-> currentWorkspace]
    IN  [debounces |-> [k \in DOMAIN ps.debounces \cup {key} |->
                           IF k = key THEN t.id ELSE ps.debounces[k]],
         timers    |-> ClearTimeout(ps, key) \cup {t},
         nextTimer |-> ps.nextTimer + 1,
         burst     |-> [ps.burst EXCEPT ![key] = NextBurst(ps, page)],
         afterFail |-> [ps.afterFail EXCEPT ![key] = NoFail],
         cache     |-> CacheAfterSave(ps.cache, currentWorkspace, page)]

\* the deleteDoc call of deletePage(currentWorkspace, pageId)
DeleteDoc(pageId) ==
    [n |-> Len(deletes) + 1, workspaceId |-> currentWorkspace, pageId |-> pageId]

\* deletePage(workspaceId, pageId), up to the await of deleteDoc
CancelOnDelete(ps, pageId) ==
    LET key == DebounceKey(currentWorkspace, pageId)
    IN  [ps EXCEPT !.timers    = ClearTimeout(ps, key),
                   !.debounces = [k \in DOMAIN ps.debounces \ {key} |-> ps.debounces[k]],
                   !.burst     = [ps.burst EXCEPT ![key] =
                                     [NoBurst EXCEPT !.tid = ps.burst[key].tid]]]

Commit(ps) ==
    /\ debounces' = ps.debounces
    /\ timers'    = ps.timers
    /\ nextTimer' = ps.nextTimer
    /\ burst'     = ps.burst
    /\ afterFail' = ps.afterFail
    /\ cache'     = ps.cache

\* a push that keeps the redo stack
SaveToHistoryKeepRedo(newPages) ==
    /\ pages' = newPages
    /\ IF pages # newPages
       THEN /\ undoStack' = LastN(Append(undoStack, pages), HistoryCap)
            /\ UNCHANGED redoStack
       ELSE UNCHANGED <<undoStack, redoStack>>

\* saveToHistory(newPages)
SaveToHistory(newPages) ==
    /\ pages' = newPages
    /\ IF pages # newPages
       THEN /\ undoStack' = LastN(Append(undoStack, pages), HistoryCap)
            /\ redoStack' = <<>>
       ELSE UNCHANGED <<undoStack, redoStack>>

Op(op, key) == [op |-> op, key |-> key, prev |-> pages, cont |-> "none"]

\* no suggestNextBlock promise is pending
NoSuggestion == [id |-> 0]

\* the last key event of the editor and the blocks and focus it met; NoKey
\* once anything else happened
NoKey == [key |-> "none", index |-> -1, blocks |-> <<>>, focus |-> 0, text |-> <<>>]

\* the event key on the block at index (counted from 0) of the active page
KeyEvent(key, index) ==
    [key |-> key, index |-> index, blocks |-> FindPage(pages, activePageId).blocks,
     focus |-> focusedBlockId, text |-> <<>>]

\* the input event that left newContent in the element of the block at index
InputEvent(index, newContent) == [KeyEvent("input", index) EXCEPT !.text = newContent]

----------------------------------------------------------------------------
(* Handlers of App *)

\* handleAddPage(parentId): parentId = 0 is a root page
HandleAddPage(parentId) ==
    LET newPageId == nextUuid
        newPage   == NewPage(newPageId, nextUuid + 1, Untitled, parentId, "page")
        parent    == FindPage(pages, parentId)
        folder    == parentId # 0 /\ HasPage(pages, parentId) /\ parent.type = "folder"
        ps1       == IF folder THEN SavePage(PState, ExpandedParent(parent, newPageId), "none")
                     ELSE PState
    IN  /\ nextUuid + 1 <= MaxUuid
        /\ nextTimer + (IF folder THEN 1 ELSE 0) <= MaxTimers
        /\ SaveToHistory(AddPageUpdater(pages, newPage, parentId))
        /\ activePageId' = newPageId
        /\ nextUuid' = nextUuid + 2
        /\ Commit(SavePage(ps1, newPage, "none"))
        /\ lastOp' = Op("addPage", newPageId)
        /\ UNCHANGED editorVars
        /\ UNCHANGED <<navPending, saveStatus, clock, inflight, deletes, deleteDocs,
                       remote, writeLog>>
        /\ UNCHANGED workspaceVars
        /\ lastKey' = NoKey

HandleCreateFolder ==
    LET folderId  == nextUuid
        newFolder == NewPage(folderId, nextUuid + 1, UntitledFolder, 0, "folder")
    IN  /\ nextUuid + 1 <= MaxUuid
        /\ nextTimer <= MaxTimers
        /\ SaveToHistory(Append(pages, newFolder))
        /\ activePageId' = folderId
        /\ nextUuid' = nextUuid + 2
        /\ Commit(SavePage(PState, newFolder, "none"))
        /\ lastOp' = Op("createFolder", folderId)
        /\ UNCHANGED editorVars
        /\ UNCHANGED <<navPending, saveStatus, clock, inflight, deletes, deleteDocs,
                       remote, writeLog>>
        /\ UNCHANGED workspaceVars
        /\ lastKey' = NoKey

HandleRenamePage(pageId, newName) ==
    LET sanitizedName == Sanitize(newName)
        page          == FindPage(pages, pageId)
        usesUuid      == HasPage(pages, pageId)
                         /\ ~(Len(page.blocks) > 0 /\ page.blocks[1].type = Heading1)
    IN  /\ usesUuid => nextUuid <= MaxUuid
        /\ nextTimer <= MaxTimers
        /\ SaveToHistory(RenameUpdater(pages, pageId, sanitizedName, nextUuid))
        /\ nextUuid' = IF usesUuid THEN nextUuid + 1 ELSE nextUuid
        /\ IF HasPage(pages, pageId)
           THEN Commit(SavePage(PState, RenamedPageToSave(page, sanitizedName), "none"))
           ELSE Commit(PState)
        /\ lastOp' = Op("renamePage", pageId)
        /\ UNCHANGED editorVars
        /\ UNCHANGED <<activePageId, navPending, saveStatus, clock, inflight, deletes,
                       deleteDocs, remote, writeLog>>
        /\ UNCHANGED workspaceVars
        /\ lastKey' = NoKey

\* handleDeletePage(id); when the updater throws, React reports the error of
\* the render that ran it, while the handler has gone on to deletePage
HandleDeletePage(id) ==
    LET idsToDelete == Range(getIdsToDelete(id, pages))
    IN  /\ IF StackOverflows(id, pages)
           THEN /\ lastOp' = Op("RangeError", id)
                /\ UNCHANGED <<pages, undoStack, redoStack, navPending>>
           ELSE /\ SaveToHistory(DeleteUpdater(pages, id))
                /\ navPending' = (navPending
                                    \/ (activePageId # 0 /\ activePageId \in idsToDelete))
                /\ lastOp' = Op("deletePage", id)
        /\ Commit(CancelOnDelete(PState, id))
        /\ deletes' = Append(deletes, id)
        /\ deleteDocs' = deleteDocs \cup {DeleteDoc(id)}
        /\ UNCHANGED editorVars
        /\ UNCHANGED <<activePageId, saveStatus, clock, nextUuid, inflight, remote, writeLog>>
        /\ UNCHANGED workspaceVars
        /\ lastKey' = NoKey

\* the setTimeout(..., 0) armed by handleDeletePage; the Dashboard view
\* replaces the BlockEditor, whose state is gone with it
NavTimeout ==
    /\ navPending
    /\ navPending' = FALSE
    /\ activePageId' = 0
    /\ focusedBlockId' = 0
    /\ slashMenuOpen' = FALSE
    /\ slashMenuIndex' = -1
    /\ collapsedBlocks' = {}
    /\ UNCHANGED suggestion
    /\ lastOp' = Op("navTimeout", 0)
    /\ UNCHANGED <<pages, undoStack, redoStack, saveStatus, clock, nextUuid,
                   syncVars, writeLog, burst, afterFail>>
    /\ UNCHANGED workspaceVars
    /\ lastKey' = NoKey

HandleToggleFavorite(id) ==
    LET updated == ToggleFavoriteUpdater(pages, id)
    IN  /\ HasPage(pages, id)
        /\ nextTimer <= MaxTimers
        /\ SaveToHistory(updated)
        /\ Commit(SavePage(PState, FindPage(updated, id), "none"))
        /\ lastOp' = Op("toggleFavorite", id)
        /\ UNCHANGED editorVars
        /\ UNCHANGED <<activePageId, navPending, saveStatus, clock, nextUuid, inflight,
                       deletes, deleteDocs, remote, writeLog>>
        /\ UNCHANGED workspaceVars
        /\ lastKey' = NoKey

\* updateActivePageBlocks(newBlocks), called by the editor of the active page
UpdateActivePageBlocks(newBlocks) ==
    LET updatedPage == FindPage(pages, activePageId)
        pageToSave  == [updatedPage EXCEPT !.blocks = newBlocks,
                                           !.title = DeriveTitle(newBlocks)]
    IN  /\ activePageId # 0
        /\ HasPage(pages, activePageId)
        /\ nextTimer <= MaxTimers
        /\ SaveToHistory(UpdateBlocksUpdater(pages, activePageId, newBlocks))
        /\ saveStatus' = "unsaved"
        /\ Commit(SavePage(PState, pageToSave, "edit"))
        /\ lastOp' = Op("updateBlocks", activePageId)
        /\ UNCHANGED <<activePageId, navPending, clock, inflight, deletes, deleteDocs,
                       remote, writeLog>>

----------------------------------------------------------------------------
(* BlockEditor: the operations that hand a new block sequence to onChange, *)
(* which is updateActivePageBlocks                                         *)

ActiveBlocks == FindPage(pages, activePageId).blocks

\* a spread that would also give the block another id
MergeRenewed(b, updates) ==
    [f \in DOMAIN b |-> IF f \in DOMAIN updates THEN updates[f]
                        ELSE IF f = "id" THEN b[f] + 10 ELSE b[f]]

\* { ...b, ...updates }
Merge(b, updates) ==
    [f \in DOMAIN b |-> IF f \in DOMAIN updates THEN updates[f] ELSE b[f]]

\* updateBlock(id, updates)
UpdateBlock(id, updates) ==
    /\ activePageId # 0 /\ HasPage(pages, activePageId)
    /\ UpdateActivePageBlocks([i \in DOMAIN ActiveBlocks |->
            IF ActiveBlocks[i].id = id THEN Merge(ActiveBlocks[i], updates)
            ELSE ActiveBlocks[i]])
    /\ nextUuid' = nextUuid
    /\ UNCHANGED editorVars

\* addBlock(index, type) with splice(index, 0, newBlock)
AddBlockBefore(index, type) ==
    /\ activePageId # 0 /\ HasPage(pages, activePageId)
    /\ nextUuid <= MaxUuid
    /\ UpdateActivePageBlocks(SubSeq(ActiveBlocks, 1, index)
                              \o <<Block(nextUuid, type, <<>>, 0)>>
                              \o SubSeq(ActiveBlocks, index + 1, Len(ActiveBlocks)))
    /\ nextUuid' = nextUuid + 1
    /\ focusedBlockId' = nextUuid
    /\ UNCHANGED <<slashMenuOpen, slashMenuIndex,
                   collapsedBlocks, suggestion>>

\* addBlock(index, type), index counted from 0: splice(index + 1, 0, newBlock)
AddBlock(index, type) ==
    /\ activePageId # 0 /\ HasPage(pages, activePageId)
    /\ nextUuid <= MaxUuid
    /\ UpdateActivePageBlocks(SubSeq(ActiveBlocks, 1, index + 1)
                              \o <<Block(nextUuid, type, <<>>, 0)>>
                              \o SubSeq(ActiveBlocks, index + 2, Len(ActiveBlocks)))
    /\ nextUuid' = nextUuid + 1
    /\ focusedBlockId' = nextUuid
    /\ UNCHANGED <<slashMenuOpen, slashMenuIndex,
                   collapsedBlocks, suggestion>>

\* the slashMenuOpen property of the block at index, for no block
MenuOpenForNone(index) == FALSE

\* the slashMenuOpen property of the block at index
MenuOpenFor(index) == slashMenuOpen /\ slashMenuIndex = index

\* an event handler that returns without calling a state setter
NoEdit ==
    /\ lastOp' = Op("noEdit", activePageId)
    /\ UNCHANGED <<localVars, saveStatus, editorVars, syncVars, writeLog, burst, afterFail>>

\* an event handler that throws before it calls a state setter: React reports
\* the error and the state stays as it was
Throws(error) ==
    /\ lastOp' = Op(error, activePageId)
    /\ UNCHANGED <<localVars, saveStatus, editorVars, syncVars, writeLog, burst, afterFail>>

\* the position (counted from 1) of the block with the given id; 0 when absent
PositionOf(blocks, id) ==
    IF \E i \in DOMAIN blocks : blocks[i].id = id
    THEN CHOOSE i \in DOMAIN blocks :
            blocks[i].id = id /\ \A j \in 1..(i - 1) : blocks[j].id # id
    ELSE 0

\* what removeBlock does about the one-block page
RemoveGuardNever(blocks) == FALSE

RemoveGuard(blocks) == Len(blocks) <= 1

\* the focus removeBlock leaves: the block before the removed one, if any
FocusAfterRemoveSame(blocks, id) == focusedBlockId

FocusAfterRemove(blocks, id) ==
    LET pos       == PositionOf(blocks, id)
        newBlocks == SelectSeq(blocks, LAMBDA b : b.id # id)
    IN  IF pos > 1 THEN newBlocks[pos - 1].id ELSE focusedBlockId

\* removeBlock(id)
RemoveBlock(id) ==
    /\ activePageId # 0 /\ HasPage(pages, activePageId)
    /\ IF RemoveGuard(ActiveBlocks) THEN NoEdit
       ELSE /\ UpdateActivePageBlocks(SelectSeq(ActiveBlocks, LAMBDA b : b.id # id))
            /\ nextUuid' = nextUuid
            /\ focusedBlockId' = FocusAfterRemove(ActiveBlocks, id)
            /\ UNCHANGED <<slashMenuOpen, slashMenuIndex,
                   collapsedBlocks, suggestion>>

\* the kind onAddNext passes to addBlock
OnAddNextKind(type) ==
    IF type = Bullet THEN Bullet
    ELSE IF type = Number THEN Number
    ELSE IF type = Todo THEN Todo
    ELSE Text

\* handleDrop(e, targetId) with draggedBlockId set by handleDragStart
HandleDrop(draggedBlockId, targetId) ==
    LET oldIndex == PositionOf(ActiveBlocks, draggedBlockId)
        newIndex == PositionOf(ActiveBlocks, targetId)
        without  == SubSeq(ActiveBlocks, 1, oldIndex - 1)
                    \o SubSeq(ActiveBlocks, oldIndex + 1, Len(ActiveBlocks))
    IN  /\ activePageId # 0 /\ HasPage(pages, activePageId)
        /\ IF draggedBlockId = targetId \/ oldIndex = 0 \/ newIndex = 0 THEN NoEdit
           ELSE /\ UpdateActivePageBlocks(SubSeq(without, 1, newIndex - 1)
                                          \o <<ActiveBlocks[oldIndex]>>
                                          \o SubSeq(without, newIndex, Len(without)))
                /\ nextUuid' = nextUuid
                /\ UNCHANGED editorVars

\* handleManualSave, reached through the button shown while 'unsaved'
HandleManualSave ==
    /\ saveStatus = "unsaved"
    /\ activePageId # 0
    /\ HasPage(pages, activePageId)
    /\ nextTimer <= MaxTimers
    /\ saveStatus' = "saving"
    /\ Commit(SavePage(PState, FindPage(pages, activePageId), "manual"))
    /\ lastOp' = Op("manualSave", activePageId)
    /\ UNCHANGED editorVars
    /\ UNCHANGED <<localVars, inflight, deletes, deleteDocs, remote, writeLog>>
    /\ UNCHANGED workspaceVars
    /\ lastKey' = NoKey

HandlePageSelect(id) ==
    /\ HasPage(pages, id)
    /\ clock < MaxClock
    /\ clock' = clock + 1
    /\ SaveToHistory(PageSelectUpdater(pages, id, clock + 1))
    /\ activePageId' = id
    /\ lastOp' = Op("pageSelect", id)
    /\ UNCHANGED editorVars
    /\ UNCHANGED <<navPending, saveStatus, nextUuid, syncVars, writeLog, burst, afterFail>>
    /\ UNCHANGED workspaceVars
    /\ lastKey' = NoKey

HandleUndo ==
    /\ Len(undoStack) # 0
    /\ undoStack' = DropLast(undoStack)
    /\ redoStack' = Append(redoStack, pages)
    /\ pages' = undoStack[Len(undoStack)]
    /\ lastOp' = Op("undo", 0)
    /\ UNCHANGED editorVars
    /\ UNCHANGED <<activePageId, navPending, saveStatus, clock, nextUuid, syncVars,
                   writeLog, burst, afterFail>>
    /\ UNCHANGED workspaceVars
    /\ lastKey' = NoKey

HandleRedo ==
    /\ Len(redoStack) # 0
    /\ redoStack' = DropLast(redoStack)
    /\ undoStack' = Append(undoStack, pages)
    /\ pages' = redoStack[Len(redoStack)]
    /\ lastOp' = Op("redo", 0)
    /\ UNCHANGED editorVars
    /\ UNCHANGED <<activePageId, navPending, saveStatus, clock, nextUuid, syncVars,
                   writeLog, burst, afterFail>>
    /\ UNCHANGED workspaceVars
    /\ lastKey' = NoKey

----------------------------------------------------------------------------
(* Timer callback of savePage and the completions of the store calls *)

\* what runs once the promise of savePage resolves
Continuation(cont) == IF cont \in {"edit", "manual"} THEN "saved" ELSE saveStatus

\* the callback starts: setDoc is called with the page captured by the timer
FireTimer(t) ==
    /\ t \in timers
    /\ timers' = timers \ {t}
    /\ inflight' = inflight \cup {t}
    /\ writeLog' = Append(writeLog, [id |-> t.id, key |-> t.key, page |-> t.page,
                                     cont |-> t.cont, latest |-> burst[t.key].tid,
                                     workspaceId |-> t.workspaceId])
    /\ burst' = IF t.id >= burst[t.key].first
                THEN [burst EXCEPT ![t.key].writes = @ + 1, ![t.key].wpage = t.page]
                ELSE burst
    /\ lastOp' = [Op("fireTimer", t.key) EXCEPT !.cont = t.cont]
    /\ UNCHANGED editorVars
    /\ UNCHANGED <<localVars, saveStatus, debounces, deletes, deleteDocs, nextTimer,
                   remote, cache, afterFail>>
    /\ UNCHANGED workspaceVars
    /\ lastKey' = NoKey

\* setDoc resolved: the map entry of the key is deleted, the promise resolves
WriteOk(w) ==
    /\ w \in inflight
    /\ inflight' = inflight \ {w}
    /\ remote' = [remote EXCEPT ![w.key] = w.page]
    /\ debounces' = [k \in DOMAIN debounces \ {w.key} |-> debounces[k]]
    /\ saveStatus' = Continuation(w.cont)
    /\ afterFail' = [afterFail EXCEPT ![w.key] = NoFail]
    /\ lastOp' = [Op("writeOk", w.key) EXCEPT !.cont = w.cont]
    /\ UNCHANGED editorVars
    /\ UNCHANGED <<localVars, timers, deletes, deleteDocs, nextTimer, cache, writeLog,
                   burst>>
    /\ UNCHANGED workspaceVars
    /\ lastKey' = NoKey

\* deleteDoc resolved: the document is gone, and deletePage goes on to filter
\* the page out of the localStorage item if there is one
DeleteOk(d) ==
    /\ d \in deleteDocs
    /\ deleteDocs' = deleteDocs \ {d}
    /\ remote' = [remote EXCEPT ![DebounceKey(d.workspaceId, d.pageId)] = NoPage]
    /\ cache' = IF cache[d.workspaceId].present
                THEN [cache EXCEPT ![d.workspaceId].pages =
                        SelectSeq(@, LAMBDA p : p.id # d.pageId)]
                ELSE cache
    /\ lastOp' = Op("deleteOk", d.pageId)
    /\ UNCHANGED editorVars
    /\ UNCHANGED <<localVars, saveStatus, debounces, timers, inflight, deletes, nextTimer,
                   writeLog, burst, afterFail>>
    /\ UNCHANGED workspaceVars
    /\ lastKey' = NoKey

\* what the catch block of the timer callback leaves armed
TimersAfterFailRetry(w) == timers \cup {w}

TimersAfterFail(w) == timers

\* setDoc rejected: the error is logged, the promise resolves all the same
WriteFail(w) ==
    /\ w \in inflight
    /\ inflight' = inflight \ {w}
    /\ timers' = TimersAfterFail(w)
    /\ saveStatus' = Continuation(w.cont)
    /\ afterFail' = [afterFail EXCEPT ![w.key] =
                        [st |-> IF ArmedFor(timers, w.key) = {} /\ InFlightFor(w.key) = {w}
                                THEN "quiet" ELSE "pending",
                         at |-> Len(writeLog)]]
    /\ lastOp' = [Op("writeFail", w.key) EXCEPT !.cont = w.cont]
    /\ UNCHANGED editorVars
    /\ UNCHANGED <<localVars, debounces, deletes, deleteDocs, nextTimer, remote, cache,
                   writeLog, burst>>
    /\ UNCHANGED workspaceVars
    /\ lastKey' = NoKey

----------------------------------------------------------------------------
(* Initial state: a signed-in user in a workspace without pages *)

Init ==
    /\ currentWorkspace = 1
    /\ fetching = <<>>
    /\ pages = <<>>
    /\ activePageId = 0
    /\ navPending = FALSE
    /\ undoStack = <<>>
    /\ redoStack = <<>>
    /\ saveStatus = "saved"
    /\ clock = 0
    /\ nextUuid = 1
    /\ focusedBlockId = 0
    /\ slashMenuOpen = FALSE
    /\ slashMenuIndex = -1
    /\ collapsedBlocks = {}
    /\ suggestion = NoSuggestion
    /\ debounces = <<>>
    /\ timers = {}
    /\ inflight = {}
    /\ deletes = <<>>
    /\ deleteDocs = {}
    /\ nextTimer = 1
    /\ remote = [k \in Keys |-> NoPage]
    /\ cache = LoadedCache
    /\ writeLog = <<>>
    /\ burst = [k \in Keys |-> NoBurst]
    /\ afterFail = [k \in Keys |-> NoFail]
    /\ lastOp = [op |-> "init", key |-> 0, prev |-> <<>>, cont |-> "none"]
    /\ lastKey = NoKey

----------------------------------------------------------------------------
(* Synchronisation: edits of a few pages against timers and the store *)

SyncBudget == nextTimer <= SyncSaves

\* typing one character at the end of the page's first block
TypeInTitle ==
    /\ SyncBudget
    /\ activePageId # 0 /\ HasPage(pages, activePageId)
    /\ Len(ActiveBlocks[1].content) < Len(Untitled) + MaxContent
    /\ UpdateBlock(ActiveBlocks[1].id, [content |-> Append(ActiveBlocks[1].content, "a")])
    /\ UNCHANGED workspaceVars
    /\ lastKey' = NoKey

SyncAddPage == SyncBudget /\ nextUuid < 2 * SyncPages /\ HandleAddPage(0)

SyncRename == SyncBudget /\ \E i \in DOMAIN pages : HandleRenamePage(pages[i].id, <<"b">>)

SyncFavorite == SyncBudget /\ \E i \in DOMAIN pages : HandleToggleFavorite(pages[i].id)

SyncManualSave == SyncBudget /\ HandleManualSave

TimerFires == \E t \in timers : FireTimer(t)

WriteSucceeds == \E w \in inflight : WriteOk(w)

WriteRejected == \E w \in inflight : WriteFail(w)

NextSync ==
    \/ SyncAddPage
    \/ TypeInTitle
    \/ SyncManualSave
    \/ SyncFavorite
    \/ SyncRename
    \/ TimerFires
    \/ WriteSucceeds
    \/ WriteRejected

Spec == Init /\ [][NextSync]_vars

----------------------------------------------------------------------------
(* Coalescing: one page, opened, edited and saved by hand, every write      *)
(* accepted                                                                *)

CoalesceBudget == nextTimer <= CoalesceSaves

CoalesceAddPage == CoalesceBudget /\ pages = <<>> /\ HandleAddPage(0)

\* typing one character at the end of the page's first block
CoalesceType ==
    /\ CoalesceBudget
    /\ activePageId # 0 /\ HasPage(pages, activePageId)
    /\ UpdateBlock(ActiveBlocks[1].id, [content |-> Append(ActiveBlocks[1].content, "a")])
    /\ UNCHANGED workspaceVars
    /\ lastKey' = NoKey

CoalesceManualSave == CoalesceBudget /\ HandleManualSave

\* the page is opened again from the sidebar
CoalesceSelect == \E i \in DOMAIN pages : HandlePageSelect(pages[i].id)

NextCoalesce ==
    \/ CoalesceAddPage
    \/ CoalesceType
    \/ CoalesceManualSave
    \/ CoalesceSelect
    \/ TimerFires
    \/ WriteSucceeds

SpecCoalesce == Init /\ [][NextCoalesce]_vars

----------------------------------------------------------------------------
(* Document tree: pages, sub-pages, folders, links, deletion and history *)

\* every user operation arms a timer, issues a deleteDoc or reads the clock
OpsDone == (nextTimer - 1) + Len(deletes) + clock

TreeBudget == OpsDone < TreeOps

TreeAddPage ==
    /\ TreeBudget
    /\ Len(pages) < TreePages
    /\ \E parentId \in {0} \cup PageIdsOf(pages) : HandleAddPage(parentId)

TreeCreateFolder == TreeBudget /\ Len(pages) < TreePages /\ HandleCreateFolder

TreeDelete == TreeBudget /\ \E i \in DOMAIN pages : HandleDeletePage(pages[i].id)

TreeRename == TreeBudget /\ activePageId # 0 /\ HasPage(pages, activePageId)
              /\ HandleRenamePage(activePageId, <<" ", "b">>)

\* a new Text block after the last block of the active page
TreeAddBlock ==
    /\ TreeBudget
    /\ activePageId # 0 /\ HasPage(pages, activePageId)
    /\ Len(ActiveBlocks) < MaxBlocks
    /\ AddBlock(Len(ActiveBlocks) - 1, Text)
    /\ UNCHANGED workspaceVars
    /\ lastKey' = NoKey

\* the page picker confirms a target: the last block of the active page
\* becomes a link to it, its content mirroring the target's title
TreeLink ==
    /\ TreeBudget
    /\ activePageId # 0 /\ HasPage(pages, activePageId)
    /\ Len(ActiveBlocks) > 1
    /\ \E target \in PageIdsOf(pages) \ {activePageId} :
          UpdateBlock(ActiveBlocks[Len(ActiveBlocks)].id,
                      [type |-> PageLink, pageId |-> target,
                       content |-> FindPage(pages, target).title])
    /\ UNCHANGED workspaceVars
    /\ lastKey' = NoKey

NextTree ==
    \/ TreeAddPage
    \/ TreeCreateFolder
    \/ TreeDelete
    \/ TreeRename
    \/ TreeAddBlock
    \/ TreeLink
    \/ HandleUndo
    \/ HandleRedo
    \/ NavTimeout

SpecTree == Init /\ [][NextTree]_vars

----------------------------------------------------------------------------
(* Title derivation: one page, opened from the store with any short block  *)
(* sequence, and edited block by block                                     *)

TitleTypes == {Text, Heading1, Heading2}

TitleContents ==
    { <<>>, <<"a">>, <<" ">>, <<" ", "a", " ">>,
      <<"<", "b", "r", ">">>,
      <<"<", "b", ">", "a", "<", "/", "b", ">">> }

TitleBlocks ==
    {<<Block(2, t, c, 0)>> : t \in TitleTypes, c \in TitleContents}
    \cup {<<Block(2, t1, c1, 0), Block(3, t2, c2, 0)>> :
            t1 \in TitleTypes, c1 \in TitleContents,
            t2 \in TitleTypes, c2 \in TitleContents}

\* page 1 as fetchPages returned it
StoredPage(blocks) ==
    [NewPage(1, 2, Untitled, 0, "page") EXCEPT !.blocks = blocks,
                                               !.title = DeriveTitle(blocks)]

\* the state after loadWorkspaceData and handlePageSelect(1)
InitTitle ==
    \E blocks \in TitleBlocks :
        /\ currentWorkspace = 1
        /\ fetching = <<>>
        /\ pages = PageSelectUpdater(<<StoredPage(blocks)>>, 1, 1)
        /\ activePageId = 1
        /\ navPending = FALSE
        /\ undoStack = << <<StoredPage(blocks)>> >>
        /\ redoStack = <<>>
        /\ saveStatus = "saved"
        /\ clock = 1
        /\ nextUuid = 4
        /\ focusedBlockId = 0
        /\ slashMenuOpen = FALSE
        /\ slashMenuIndex = -1
        /\ collapsedBlocks = {}
        /\ suggestion = NoSuggestion
        /\ debounces = <<>>
        /\ timers = {}
        /\ inflight = {}
        /\ deletes = <<>>
        /\ deleteDocs = {}
        /\ nextTimer = 1
        /\ remote = [k \in Keys |-> IF k = 1 THEN StoredPage(blocks) ELSE NoPage]
        /\ cache = LoadedCache
        /\ writeLog = <<>>
        /\ burst = [k \in Keys |-> NoBurst]
        /\ afterFail = [k \in Keys |-> NoFail]
        /\ lastOp = [op |-> "pageSelect", key |-> 1, prev |-> <<StoredPage(blocks)>>,
                     cont |-> "none"]
        /\ lastKey = NoKey

TitleSetContent ==
    nextTimer <= TitleEdits /\ lastKey' = NoKey /\ UNCHANGED workspaceVars /\ \E i \in DOMAIN ActiveBlocks, c \in TitleContents :
        UpdateBlock(ActiveBlocks[i].id, [content |-> c])

TitleSetType ==
    nextTimer <= TitleEdits /\ lastKey' = NoKey /\ UNCHANGED workspaceVars /\ \E i \in DOMAIN ActiveBlocks, t \in TitleTypes :
        UpdateBlock(ActiveBlocks[i].id, [type |-> t])

NextTitle ==
    \/ TitleSetContent
    \/ TitleSetType

SpecTitle == InitTitle /\ [][NextTitle]_vars

----------------------------------------------------------------------------
(* References: two pages that refer to each other, opened from the store,  *)
(* renamed from the sidebar and retitled in the editor                     *)

MirrorNames == { <<"b">>, <<" ">>, <<" ", "c">> }

MirrorTitles == { <<"a">>, <<"<", "b", ">", "a", "<", "/", "b", ">">> }

\* pages 1 and 4 as fetchPages returned them: page 4 embeds or links page 1,
\* page 1 links page 4, each reference showing the title of its target
MirrorPages(kind, title) ==
    LET t1 == DeriveTitle(<<Block(2, Heading1, title, 0)>>)
    IN  << [NewPage(1, 2, title, 0, "page") EXCEPT
               !.title = t1,
               !.blocks = <<Block(2, Heading1, title, 0),
                            Block(3, PageLink, Untitled, 4)>>,
               !.childIds = IF kind = PageEmbed THEN <<4>> ELSE <<>>],
           [NewPage(4, 5, Untitled, IF kind = PageEmbed THEN 1 ELSE 0, "page") EXCEPT
               !.blocks = <<Block(5, Heading1, Untitled, 0),
                            Block(6, kind, t1, 1),
                            Block(7, Text, <<"a">>, 0)>>] >>

\* the state after loadWorkspaceData and handlePageSelect
InitMirror ==
    \E kind \in {PageEmbed, PageLink}, title \in MirrorTitles, active \in {1, 4} :
        /\ currentWorkspace = 1
        /\ fetching = <<>>
        /\ pages = PageSelectUpdater(MirrorPages(kind, title), active, 1)
        /\ activePageId = active
        /\ navPending = FALSE
        /\ undoStack = <<MirrorPages(kind, title)>>
        /\ redoStack = <<>>
        /\ saveStatus = "saved"
        /\ clock = 1
        /\ nextUuid = 8
        /\ focusedBlockId = 0
        /\ slashMenuOpen = FALSE
        /\ slashMenuIndex = -1
        /\ collapsedBlocks = {}
        /\ suggestion = NoSuggestion
        /\ debounces = <<>>
        /\ timers = {}
        /\ inflight = {}
        /\ deletes = <<>>
        /\ deleteDocs = {}
        /\ nextTimer = 1
        /\ remote = [k \in Keys |-> FindPage(MirrorPages(kind, title), k)]
        /\ cache = LoadedCache
        /\ writeLog = <<>>
        /\ burst = [k \in Keys |-> NoBurst]
        /\ afterFail = [k \in Keys |-> NoFail]
        /\ lastOp = [op |-> "pageSelect", key |-> active,
                     prev |-> MirrorPages(kind, title), cont |-> "none"]
        /\ lastKey = NoKey

MirrorBudget == nextTimer <= MirrorOps

MirrorRename ==
    MirrorBudget /\ \E i \in DOMAIN pages, name \in MirrorNames :
        HandleRenamePage(pages[i].id, name)

\* the first block of the active page gets another content
MirrorRetitle ==
    MirrorBudget /\ lastKey' = NoKey /\ UNCHANGED workspaceVars /\ \E c \in TitleContents :
        UpdateBlock(ActiveBlocks[1].id, [content |-> c])

\* the first block of the active page gets another kind
MirrorSetType ==
    MirrorBudget /\ lastKey' = NoKey /\ UNCHANGED workspaceVars /\ \E t \in TitleTypes :
        UpdateBlock(ActiveBlocks[1].id, [type |-> t])

NextMirror ==
    \/ MirrorRename
    \/ MirrorRetitle
    \/ MirrorSetType
    \/ HandleUndo
    \/ HandleRedo

SpecMirror == InitMirror /\ [][NextMirror]_vars

----------------------------------------------------------------------------
(* EditableBlock and CodeBlock: the key and input handlers of one block *)

\* Node.textContent of the block's element, whose innerHTML is the content
TextContent(content) == StripTags(content)

\* the isPageTitle property of the block at index (counted from 0)
IsPageTitle(index, block) == index = 0 /\ block.type = Heading1

\* the kinds Backspace deletes whatever the block holds: none
DeletesAtOnceNever(type) == FALSE

\* the kinds Backspace deletes whatever the block holds
DeletesAtOnce(type) == type = PageEmbed \/ type = PageLink

\* what Backspace does to an empty block: every kind deleted
EmptyEffectDeleteAll(type) == "onDelete"

\* what Backspace does to an empty block of the given kind
EmptyEffect(type) ==
    IF type = Divider THEN "onDelete"
    ELSE IF type # Text THEN "toText"
    ELSE "onDelete"

\* what handleKeyDown does on Backspace, without the title guard
BackspaceEffectNoTitleGuard(isPageTitle, type, textContent) ==
    IF DeletesAtOnce(type) THEN "onDelete"
    ELSE IF textContent = <<>> THEN EmptyEffect(type)
    ELSE "default"

\* what handleKeyDown does on Backspace
BackspaceEffect(isPageTitle, type, textContent) ==
    IF isPageTitle /\ textContent = <<>> THEN "return"
    ELSE IF DeletesAtOnce(type) THEN "onDelete"
    ELSE IF textContent = <<>> THEN EmptyEffect(type)
    ELSE "default"

\* the trigger table of handleInput; "none" when the text is no trigger
ShorthandType(cleanText) ==
    IF cleanText = <<"#">> THEN Heading1
    ELSE IF cleanText = <<"#", "#">> THEN Heading2
    ELSE IF cleanText = <<"#", "#", "#">> THEN Heading3
    ELSE IF cleanText = <<"#", "#", "#", "#">> THEN Heading4
    ELSE IF cleanText = <<"#", "#", "#", "#", "#">> THEN Heading5
    ELSE IF cleanText = <<">">> THEN Quote
    ELSE IF cleanText = <<"-">> \/ cleanText = <<"*">> THEN Bullet
    ELSE IF cleanText = <<"[", "]">> THEN Todo
    ELSE IF cleanText = <<"1", ".">> THEN Number
    ELSE IF cleanText = <<"-", "-", "-">> THEN Divider
    ELSE IF cleanText = <<Backtick, Backtick, Backtick>> THEN Code
    ELSE "none"

\* textContent.endsWith(Nbsp) || textContent.endsWith(' ')
EndsWithSpace(textContent) ==
    textContent # <<>> /\ textContent[Len(textContent)] \in {Nbsp, " "}

\* the updates handleInput hands to onUpdate when the element holds newContent
InputUpdates(newContent) ==
    LET textContent == TextContent(newContent)
        matchedType == IF EndsWithSpace(textContent)
                       THEN ShorthandType(Trim(textContent)) ELSE "none"
    IN  IF matchedType # "none"
        THEN [type |-> matchedType, content |-> <<>>]
        ELSE [content |-> newContent]

\* handleInput on the block at index, whose element now holds newContent
HandleInput(index, newContent) ==
    /\ activePageId # 0 /\ HasPage(pages, activePageId)
    /\ index + 1 \in DOMAIN ActiveBlocks
    /\ ActiveBlocks[index + 1].type \notin {Code, Divider}
    /\ UNCHANGED workspaceVars
    /\ lastKey' = InputEvent(index, newContent)
    /\ UpdateBlock(ActiveBlocks[index + 1].id, InputUpdates(newContent))

\* the onDelete property of a block: removeBlock, and onDeletePage for the
\* page a PageEmbed block embeds
OnDelete(block) ==
    IF block.type = PageEmbed /\ block.pageId # 0
    THEN LET guard      == RemoveGuard(ActiveBlocks)
             newBlocks  == SelectSeq(ActiveBlocks, LAMBDA b : b.id # block.id)
             active     == FindPage(pages, activePageId)
             pageToSave == [active EXCEPT !.blocks = newBlocks,
                                          !.title = DeriveTitle(newBlocks)]
             pages1     == IF guard THEN pages
                           ELSE UpdateBlocksUpdater(pages, activePageId, newBlocks)
             pages2     == DeleteUpdater(pages1, block.pageId)
             undo1      == IF pages1 # pages
                           THEN LastN(Append(undoStack, pages), HistoryCap) ELSE undoStack
             undo2      == IF pages2 # pages1
                           THEN LastN(Append(undo1, pages1), HistoryCap) ELSE undo1
             ps1        == IF guard THEN PState ELSE SavePage(PState, pageToSave, "edit")
         IN  /\ activePageId # 0 /\ HasPage(pages, activePageId)
             /\ nextTimer <= MaxTimers
             /\ pages' = pages2
             /\ undoStack' = undo2
             /\ redoStack' = IF pages2 # pages THEN <<>> ELSE redoStack
             /\ saveStatus' = IF guard THEN saveStatus ELSE "unsaved"
             /\ navPending' = (navPending \/ activePageId \in
                                   Range(getIdsToDelete(block.pageId, pages)))
             /\ Commit(CancelOnDelete(ps1, block.pageId))
             /\ deletes' = Append(deletes, block.pageId)
             /\ deleteDocs' = deleteDocs \cup {DeleteDoc(block.pageId)}
             /\ focusedBlockId' = IF guard THEN focusedBlockId
                                  ELSE FocusAfterRemove(ActiveBlocks, block.id)
             /\ lastOp' = Op("deleteEmbed", block.pageId)
             /\ UNCHANGED <<activePageId, clock, nextUuid, inflight, remote, writeLog,
                            slashMenuOpen, slashMenuIndex,
                   collapsedBlocks, suggestion>>
    ELSE RemoveBlock(block.id)

\* handleKeyDown with key Backspace on the block at index
KeyBackspace(index) ==
    LET block  == ActiveBlocks[index + 1]
        text   == TextContent(block.content)
        effect == BackspaceEffect(IsPageTitle(index, block), block.type, text)
    IN  /\ activePageId # 0 /\ HasPage(pages, activePageId)
        /\ index + 1 \in DOMAIN ActiveBlocks
        /\ block.type # Code
        /\ UNCHANGED workspaceVars
        /\ lastKey' = KeyEvent("Backspace", index)
        /\ CASE effect = "return"   -> NoEdit
             [] effect = "onDelete" -> OnDelete(block)
             [] effect = "toText"   -> UpdateBlock(block.id, [type |-> Text])
             [] OTHER ->
                  \* the browser removes the character before the caret, which the
                  \* focus effect put at the end, and fires the input event
                  IF block.type # Divider /\ text = block.content
                  THEN UpdateBlock(block.id, InputUpdates(DropLast(block.content)))
                  ELSE NoEdit

\* the Backspace binding of CodeBlock's keymap
CodeBackspace(index) ==
    LET block == ActiveBlocks[index + 1]
    IN  /\ activePageId # 0 /\ HasPage(pages, activePageId)
        /\ index + 1 \in DOMAIN ActiveBlocks
        /\ block.type = Code
        /\ UNCHANGED workspaceVars
        /\ lastKey' = KeyEvent("Backspace", index)
        /\ IF Len(block.content) = 0 THEN OnDelete(block)
           ELSE UpdateBlock(block.id, [content |-> DropLast(block.content)])

\* handleKeyDown with key Enter, no Shift, on the block at index
KeyEnter(index) ==
    LET block == ActiveBlocks[index + 1]
    IN  /\ activePageId # 0 /\ HasPage(pages, activePageId)
        /\ index + 1 \in DOMAIN ActiveBlocks
        /\ block.type # Code
        /\ UNCHANGED workspaceVars
        /\ lastKey' = KeyEvent("Enter", index)
        /\ IF MenuOpenFor(index) THEN NoEdit
           ELSE IF TextContent(block.content) = <<"-", "-", "-">>
           THEN UpdateBlock(block.id, [type |-> Divider, content |-> <<>>])
           ELSE AddBlock(index, OnAddNextKind(block.type))

\* Enter without Shift in a CodeBlock: the default keymap breaks the line
CodeEnter(index) ==
    LET block == ActiveBlocks[index + 1]
    IN  /\ activePageId # 0 /\ HasPage(pages, activePageId)
        /\ index + 1 \in DOMAIN ActiveBlocks
        /\ block.type = Code
        /\ Len(block.content) < MaxContent
        /\ UNCHANGED workspaceVars
        /\ lastKey' = KeyEvent("Enter", index)
        /\ UpdateBlock(block.id, [content |-> Append(block.content, "\n")])

\* the Shift-Enter binding of CodeBlock's keymap: onExit, which is onAddNext
CodeExit(index) ==
    LET block == ActiveBlocks[index + 1]
    IN  /\ activePageId # 0 /\ HasPage(pages, activePageId)
        /\ index + 1 \in DOMAIN ActiveBlocks
        /\ block.type = Code
        /\ UNCHANGED workspaceVars
        /\ lastKey' = KeyEvent("Shift-Enter", index)
        /\ AddBlock(index, OnAddNextKind(block.type))

----------------------------------------------------------------------------
(* The block editor of the active page: keys, the slash menu, drag and drop *)

\* the kinds the slash menu offers (BLOCK_TYPES)
SlashTypes ==
    {Text, Heading1, Heading2, Heading3, Todo, Bullet, Number, Quote, Divider,
     Heading4, Heading5, Heading6}

\* openSlashMenu(index, rect), called from the timeout the '/' key arms
OpenSlashMenu(index) ==
    /\ activePageId # 0 /\ HasPage(pages, activePageId)
    /\ index + 1 \in DOMAIN ActiveBlocks
    /\ ActiveBlocks[index + 1].type # Code
    /\ slashMenuIndex' = index
    /\ UNCHANGED <<collapsedBlocks, suggestion>>
    /\ slashMenuOpen' = TRUE
    /\ UNCHANGED workspaceVars
    /\ lastKey' = KeyEvent("/", index)
    /\ UNCHANGED <<localVars, saveStatus, focusedBlockId, syncVars, writeLog, burst,
                   afterFail, lastOp>>

\* closeSlashMenu(), the onClose of the menu: Escape, or a mousedown outside it
CloseSlashMenu ==
    /\ slashMenuOpen
    /\ slashMenuOpen' = FALSE
    /\ slashMenuIndex' = -1
    /\ UNCHANGED <<collapsedBlocks, suggestion>>
    /\ UNCHANGED workspaceVars
    /\ lastKey' = KeyEvent("Escape", slashMenuIndex)
    /\ UNCHANGED <<localVars, saveStatus, focusedBlockId, syncVars, writeLog, burst,
                   afterFail, lastOp>>

\* handleSlashSelect(type); blocks[slashMenuIndex].content throws a TypeError
\* when the index is past the end of the sequence
SlashSelectEffect(type) ==
    LET block      == ActiveBlocks[slashMenuIndex + 1]
        newContent == IF block.content # <<>> /\ block.content[Len(block.content)] = "/"
                      THEN DropLast(block.content) ELSE block.content
    IN  IF slashMenuIndex = -1 THEN NoEdit
        ELSE IF slashMenuIndex + 1 \notin DOMAIN ActiveBlocks THEN Throws("TypeError")
        ELSE /\ UpdateActivePageBlocks([i \in DOMAIN ActiveBlocks |->
                    IF ActiveBlocks[i].id = block.id
                    THEN Merge(ActiveBlocks[i], [type |-> type, content |-> newContent])
                    ELSE ActiveBlocks[i]])
             /\ nextUuid' = nextUuid
             /\ slashMenuOpen' = FALSE
             /\ slashMenuIndex' = -1
             /\ UNCHANGED <<collapsedBlocks, suggestion>>
             /\ focusedBlockId' = block.id

\* the onSelect of the menu: a click on an entry, or Enter on the highlighted one
HandleSlashSelect(type) ==
    /\ slashMenuOpen
    /\ activePageId # 0 /\ HasPage(pages, activePageId)
    /\ UNCHANGED workspaceVars
    /\ lastKey' = [KeyEvent("select", slashMenuIndex) EXCEPT !.text = <<type>>]
    /\ SlashSelectEffect(type)

EditorContents == { <<>>, <<"a">>, <<"<", "b", "r", ">">>, <<"-", "-", "-">> }

\* a block of the page the editor shows; a reference block embeds or links page 4
EditorBlock(id, type, content) ==
    Block(id, type, content, IF type \in {PageEmbed, PageLink} THEN 4 ELSE 0)

\* the block sequences of that page: one block of any kind, or two blocks
EditorBlocks ==
    { <<EditorBlock(2, t, c)>> : t \in BlockTypes, c \in EditorContents }
    \cup { <<EditorBlock(2, t1, c1), EditorBlock(3, t2, c2)>> :
             t1 \in {Heading1, Text}, c1 \in EditorContents,
             t2 \in BlockTypes, c2 \in EditorContents }

\* page 1 with the given blocks and its child page 4, as fetchPages returned them
EditorPages(blocks) ==
    << [NewPage(1, 2, Untitled, 0, "page") EXCEPT
           !.title = DeriveTitle(blocks), !.blocks = blocks, !.childIds = <<4>>],
       NewPage(4, 5, Untitled, 1, "page") >>

\* the state after loadWorkspaceData and handlePageSelect(1)
EditorInit(blockSeqs) ==
    \E blocks \in blockSeqs :
        /\ currentWorkspace = 1
        /\ fetching = <<>>
        /\ pages = PageSelectUpdater(EditorPages(blocks), 1, 1)
        /\ activePageId = 1
        /\ navPending = FALSE
        /\ undoStack = <<EditorPages(blocks)>>
        /\ redoStack = <<>>
        /\ saveStatus = "saved"
        /\ clock = 1
        /\ nextUuid = 6
        /\ focusedBlockId = 0
        /\ slashMenuOpen = FALSE
        /\ slashMenuIndex = -1
        /\ collapsedBlocks = {}
        /\ suggestion = NoSuggestion
        /\ debounces = <<>>
        /\ timers = {}
        /\ inflight = {}
        /\ deletes = <<>>
        /\ deleteDocs = {}
        /\ nextTimer = 1
        /\ remote = [k \in Keys |-> FindPage(EditorPages(blocks), k)]
        /\ cache = LoadedCache
        /\ writeLog = <<>>
        /\ burst = [k \in Keys |-> NoBurst]
        /\ afterFail = [k \in Keys |-> NoFail]
        /\ lastOp = [op |-> "pageSelect", key |-> 1,
                     prev |-> EditorPages(blocks), cont |-> "none"]
        /\ lastKey = NoKey

InitEditor == EditorInit(EditorBlocks)

\* the edits and the page deletions still allowed
EditorBudget == nextTimer <= EditorEdits /\ Len(deletes) < EditorEdits

EditorIndexes == 0..MaxBlocks

EditorBackspace ==
    EditorBudget /\ \E index \in EditorIndexes : KeyBackspace(index) \/ CodeBackspace(index)

EditorEnter ==
    EditorBudget /\ \E index \in EditorIndexes :
        KeyEnter(index) \/ CodeEnter(index) \/ CodeExit(index)

EditorDrop ==
    /\ EditorBudget
    /\ UNCHANGED workspaceVars
    /\ lastKey' = NoKey
    /\ \E draggedBlockId \in Keys, targetId \in Keys :
          /\ {draggedBlockId, targetId} \subseteq {ActiveBlocks[i].id : i \in DOMAIN ActiveBlocks}
          /\ HandleDrop(draggedBlockId, targetId)

EditorUndoRedo == HandleUndo \/ HandleRedo

NextEditor ==
    \/ EditorBackspace
    \/ EditorEnter
    \/ EditorDrop
    \/ EditorUndoRedo

SpecEditor == InitEditor /\ [][NextEditor]_vars

\* the block sequences of a page that holds as many blocks as the configured
\* maximum allows
CapacityBlocks ==
    [1..Capacity -> {Block(20, t, c, 0) : t \in {Text, Bullet, Code}, c \in {<<>>, <<"a">>}}]

\* the ids of the stored blocks, apart from those crypto.randomUUID will give
WithStoredIds(blocks) == [i \in DOMAIN blocks |-> [blocks[i] EXCEPT !.id = 20 + i]]

InitCapacity == EditorInit({WithStoredIds(blocks) : blocks \in CapacityBlocks})

NextCapacity ==
    \/ EditorEnter
    \/ EditorBackspace
    \/ EditorUndoRedo

SpecCapacity == InitCapacity /\ [][NextCapacity]_vars

\* the editor with its slash menu, on a page of one or two blocks: a lone
\* block that Backspace would delete, a lone reference, a typed '/', a title
\* with a second block, a divider
SlashBlocks ==
    { <<EditorBlock(2, Text, <<>>)>>,
      <<EditorBlock(2, Text, <<"/">>)>>,
      <<EditorBlock(2, PageEmbed, <<"a">>)>>,
      <<EditorBlock(2, Heading1, <<>>), EditorBlock(3, Text, <<>>)>>,
      <<EditorBlock(2, Text, <<"a">>), EditorBlock(3, Divider, <<>>)>> }

InitSlash == EditorInit(SlashBlocks)

SlashOpen == \E index \in EditorIndexes : OpenSlashMenu(index)

\* the anchor of the open menu is no longer a block of the page
StaleAnchor == slashMenuOpen /\ slashMenuIndex + 1 \notin DOMAIN ActiveBlocks

SlashSelect ==
    /\ EditorBudget \/ StaleAnchor
    /\ \E type \in SlashTypes : HandleSlashSelect(type)

\* the ids the page started with that none of its blocks has any more
StaleIds == {2, 3} \ {ActiveBlocks[i].id : i \in DOMAIN ActiveBlocks}

\* updateBlock, removeBlock and handleDrop called by a handler that still
\* holds the id of such a block
SlashStale ==
    /\ EditorBudget
    /\ activePageId # 0 /\ HasPage(pages, activePageId)
    /\ UNCHANGED workspaceVars
    /\ lastKey' = KeyEvent("stale", -1)
    /\ \E id \in StaleIds :
          \/ UpdateBlock(id, [content |-> <<"a">>])
          \/ RemoveBlock(id)
          \/ \E draggedBlockId \in {2, 3} : HandleDrop(draggedBlockId, id)
          \/ HandleDrop(id, 2)

\* typing into a block, a shorthand or not
SlashInput ==
    EditorBudget /\ \E index \in EditorIndexes, newContent \in {<<"a">>, <<"#", " ">>} :
        HandleInput(index, newContent)

NextSlash ==
    \/ EditorBackspace
    \/ EditorEnter
    \/ EditorDrop
    \/ EditorUndoRedo
    \/ SlashOpen
    \/ CloseSlashMenu
    \/ SlashSelect
    \/ SlashStale
    \/ SlashInput

SpecSlash == InitSlash /\ [][NextSlash]_vars

----------------------------------------------------------------------------
(* Typing into a block: the shorthand triggers of handleInput *)

Hashes(n) == [i \in 1..n |-> "#"]

\* the texts the trigger table is about, and one '#' more than it holds
ShorthandTokens ==
    {Hashes(n) : n \in 1..7}
    \cup { <<">">>, <<"-">>, <<"*">>, <<"[", "]">>, <<"1", ".">>, <<"-", "-", "-">>,
           <<Backtick, Backtick, Backtick>> }

\* what the element holds after a key: a token and a space or a no-break
\* space, a token alone, a token after a space or inside markup, other text
ShorthandInputs ==
    {Append(t, " ") : t \in ShorthandTokens}
    \cup {Append(t, Nbsp) : t \in {Hashes(1), <<"-">>}}
    \cup {Hashes(1), Hashes(2), <<"-", "-", "-">>}
    \cup { <<" ", "#", " ">>, <<"<", "b", ">", "#", "<", "/", "b", ">", " ">>,
           <<"a", " ">>, <<"#", "a", " ">>, <<"a", "#", " ">>, <<"a">>, <<>> }

\* the blocks typed into: a lone block, or a title followed by one
ShorthandBlocks ==
    { <<EditorBlock(2, t, <<>>)>> :
        t \in {Text, Heading1, Heading2, Heading6, Todo, Bullet, Number, Quote, Toggle, Callout} }
    \cup { <<EditorBlock(2, Heading1, <<"a">>), EditorBlock(3, t, <<>>)>> :
             t \in {Text, Heading3} }

InitShorthand == EditorInit(ShorthandBlocks)

ShorthandInput ==
    EditorBudget /\ \E index \in EditorIndexes, newContent \in ShorthandInputs :
        HandleInput(index, newContent)

NextShorthand ==
    \/ ShorthandInput
    \/ EditorBackspace
    \/ EditorUndoRedo

SpecShorthand == InitShorthand /\ [][NextShorthand]_vars

----------------------------------------------------------------------------
(* Rendering the blocks: collapsed headings and the numbers of list items *)

\* the level of a heading kind, 0 for any other kind
HeadingLevel(type) ==
    IF type = Heading1 THEN 1
    ELSE IF type = Heading2 THEN 2
    ELSE IF type = Heading3 THEN 3
    ELSE IF type = Heading4 THEN 4
    ELSE IF type = Heading5 THEN 5
    ELSE IF type = Heading6 THEN 6
    ELSE 0

\* the level that stands for "not hiding": deeper than every heading
NotHiding == 7

\* the hiding level once the block is scanned, a collapsed heading starting
\* to hide whether or not it is hidden itself
LevelPastEveryCollapsed(level, block, collapsed) ==
    LET own  == HeadingLevel(block.type)
        kept == IF own > 0 /\ own <= level THEN NotHiding ELSE level
    IN  IF own > 0 /\ block.id \in collapsed THEN own ELSE kept

\* the hiding level once the block is scanned: a heading no deeper than the
\* level ends the hiding, a collapsed heading that is shown starts it
LevelPast(level, block, collapsed) ==
    LET own  == HeadingLevel(block.type)
        kept == IF own > 0 /\ own <= level THEN NotHiding ELSE level
    IN  IF own > 0 /\ block.id \in collapsed /\ kept = NotHiding THEN own ELSE kept

\* the hiding level after the first n blocks, scanned top to bottom
RECURSIVE LevelAfter(_, _, _)
LevelAfter(blocks, collapsed, n) ==
    IF n = 0 THEN NotHiding
    ELSE LevelPast(LevelAfter(blocks, collapsed, n - 1), blocks[n], collapsed)

\* the block at position i (counted from 1) is not rendered
IsHidden(blocks, collapsed, i) ==
    LET level == LevelAfter(blocks, collapsed, i - 1)
        own   == HeadingLevel(blocks[i].type)
    IN  level # NotHiding /\ ~(own > 0 /\ own <= level)

\* the running counter once the block at position n is scanned, never reset
CounterPastNoReset(counter, blocks, collapsed, n) ==
    IF IsHidden(blocks, collapsed, n) THEN counter
    ELSE IF blocks[n].type = Number THEN counter + 1
    ELSE counter

\* the running counter once the block at position n is scanned: a hidden
\* block leaves it, a Number block takes the next number, any other block
\* resets it
CounterPast(counter, blocks, collapsed, n) ==
    IF IsHidden(blocks, collapsed, n) THEN counter
    ELSE IF blocks[n].type = Number THEN counter + 1
    ELSE 0

\* the running counter after the first n blocks
RECURSIVE CounterAfter(_, _, _)
CounterAfter(blocks, collapsed, n) ==
    IF n = 0 THEN 0
    ELSE CounterPast(CounterAfter(blocks, collapsed, n - 1), blocks, collapsed, n)

\* the indexInList property of the Number block at position i
IndexInList(blocks, collapsed, i) == CounterAfter(blocks, collapsed, i)

\* onToggleCollapse of the heading block with the given id
ToggleCollapse(id) ==
    /\ activePageId # 0 /\ HasPage(pages, activePageId)
    /\ \E i \in DOMAIN ActiveBlocks :
          ActiveBlocks[i].id = id /\ HeadingLevel(ActiveBlocks[i].type) > 0
    /\ collapsedBlocks' = IF id \in collapsedBlocks THEN collapsedBlocks \ {id}
                          ELSE collapsedBlocks \cup {id}
    /\ UNCHANGED workspaceVars
    /\ lastKey' = NoKey
    /\ UNCHANGED <<localVars, saveStatus, focusedBlockId, slashMenuOpen, slashMenuIndex,
                   suggestion, syncVars, writeLog, burst, afterFail, lastOp>>

\* the kinds of the blocks rendered: three heading levels, a list item, text
CollapseTypes == {Heading1, Heading2, Heading3, Number, Text}

\* the block sequences rendered, of every length up to CollapseLen
CollapseBlocks ==
    UNION { [1..n -> {Block(20, t, <<>>, 0) : t \in CollapseTypes}] : n \in 1..CollapseLen }

InitCollapse == EditorInit({WithStoredIds(blocks) : blocks \in CollapseBlocks})

CollapseToggle == \E id \in 21..(20 + CollapseLen) : ToggleCollapse(id)

NextCollapse ==
    \/ CollapseToggle
    \/ EditorBackspace

SpecCollapse == InitCollapse /\ [][NextCollapse]_vars

----------------------------------------------------------------------------
(* The AI suggestion: Tab asks suggestNextBlock for a continuation and the *)
(* promise appends it to the block later                                    *)

Suggestions == 1

SuggestionTexts == { <<>>, <<"s">> }

\* what the closure passed to .then holds: the block and the blocks of the
\* render in which Tab was pressed, and that render's updateActivePageBlocks
\* with its activePageId and pages
Captured(index) ==
    [id           |-> ActiveBlocks[index + 1].id,
     content      |-> ActiveBlocks[index + 1].content,
     blocks       |-> ActiveBlocks,
     activePageId |-> activePageId,
     pages        |-> pages]

\* onRequestSuggestion() of the block at index, on the Tab key
RequestSuggestion(index) ==
    /\ activePageId # 0 /\ HasPage(pages, activePageId)
    /\ index + 1 \in DOMAIN ActiveBlocks
    /\ ActiveBlocks[index + 1].type # Code
    /\ suggestion.id = 0
    /\ suggestion' = Captured(index)
    /\ UNCHANGED workspaceVars
    /\ lastKey' = KeyEvent("Tab", index)
    /\ UNCHANGED <<localVars, saveStatus, focusedBlockId, slashMenuOpen, slashMenuIndex,
                   collapsedBlocks, syncVars, writeLog, burst, afterFail, lastOp>>

\* the sequence updateBlock hands to onChange: the blocks it holds, with the
\* updates merged into the block of the given id
UpdatedBlocks(held, id, updates) ==
    [i \in DOMAIN held |-> IF held[i].id = id THEN Merge(held[i], updates) ELSE held[i]]

\* the promise of suggestNextBlock resolves with text: updateBlock of the
\* capturing render runs, then updateActivePageBlocks of that render
SuggestionArrives(text) ==
    LET s           == suggestion
        newBlocks   == UpdatedBlocks(s.blocks, s.id,
                                     [content |-> s.content \o <<" ">> \o text])
        updatedPage == FindPage(s.pages, s.activePageId)
        pageToSave  == [updatedPage EXCEPT !.blocks = newBlocks,
                                           !.title = DeriveTitle(newBlocks)]
    IN  /\ s.id # 0
        /\ nextTimer <= MaxTimers
        /\ SaveToHistory(UpdateBlocksUpdater(pages, s.activePageId, newBlocks))
        /\ saveStatus' = "unsaved"
        /\ Commit(SavePage(PState, pageToSave, "edit"))
        /\ suggestion' = NoSuggestion
        /\ lastOp' = Op("suggestion", s.activePageId)
        /\ UNCHANGED workspaceVars
        /\ lastKey' = [KeyEvent("suggestion", PositionOf(ActiveBlocks, s.id) - 1)
                          EXCEPT !.text = text]
        /\ UNCHANGED <<activePageId, navPending, clock, nextUuid, inflight, deletes,
                       deleteDocs, remote, writeLog, focusedBlockId, slashMenuOpen, slashMenuIndex,
                       collapsedBlocks>>

\* the pages on which a suggestion is asked for while the user goes on editing
SuggestBlocks ==
    { <<EditorBlock(2, Text, <<"a">>)>>,
      <<EditorBlock(2, Heading1, <<"a">>), EditorBlock(3, Text, <<>>)>>,
      <<EditorBlock(2, Text, <<>>), EditorBlock(3, Bullet, <<"a">>)>>,
      <<EditorBlock(2, Todo, <<>>), EditorBlock(3, Code, <<>>)>> }

InitSuggest == EditorInit(SuggestBlocks)

\* the suggestions still asked for
SuggestBudget == nextTimer <= Suggestions

SuggestRequest == SuggestBudget /\ \E index \in EditorIndexes : RequestSuggestion(index)

SuggestArrive == \E text \in SuggestionTexts : SuggestionArrives(text)

\* the timer of a save fires and its write completes
SuggestWrite ==
    \/ \E t \in timers : FireTimer(t)
    \/ \E w \in inflight : WriteOk(w) \/ WriteFail(w)

NextSuggest ==
    \/ EditorBackspace
    \/ EditorEnter
    \/ SuggestRequest
    \/ SuggestArrive
    \/ SuggestWrite

SpecSuggest == InitSuggest /\ [][NextSuggest]_vars

----------------------------------------------------------------------------
(* Workspaces: handleWorkspaceChange and loadWorkspaceData *)

WorkspaceSwitches == 2
WorkspaceSaves    == 2

\* loadingData: a fetchPages call has not settled, the spinner replaces the UI
Loading == \E i \in DOMAIN fetching : ~fetching[i].settled

\* handleWorkspaceChange(workspaceId), up to the await inside
\* loadWorkspaceData; the Dashboard view replaces the BlockEditor
HandleWorkspaceChange(workspaceId) ==
    /\ workspaceId \in 1..Workspaces
    /\ currentWorkspace' = workspaceId
    /\ activePageId' = 0
    /\ fetching' = Append(fetching, [workspaceId |-> workspaceId, settled |-> FALSE])
    /\ focusedBlockId' = 0
    /\ slashMenuOpen' = FALSE
    /\ slashMenuIndex' = -1
    /\ collapsedBlocks' = {}
    /\ lastOp' = Op("workspaceChange", workspaceId)
    /\ lastKey' = NoKey
    /\ UNCHANGED <<pages, navPending, undoStack, redoStack, saveStatus, clock, nextUuid,
                   suggestion, syncVars, writeLog, burst, afterFail>>

\* fetchPages resolved: setPages(fetchedPages), then setLoadingData(false)
FetchResolves(i) ==
    /\ i \in DOMAIN fetching
    /\ ~fetching[i].settled
    /\ fetching' = [fetching EXCEPT ![i].settled = TRUE]
    /\ pages' = FetchPages(fetching[i].workspaceId)
    /\ activePageId' = IF pages' = <<>> THEN 0 ELSE activePageId
    /\ cache' = [cache EXCEPT ![fetching[i].workspaceId] =
                     [present |-> TRUE, pages |-> FetchPages(fetching[i].workspaceId)]]
    /\ lastOp' = Op("fetchResolves", fetching[i].workspaceId)
    /\ lastKey' = NoKey
    /\ UNCHANGED <<currentWorkspace, navPending, undoStack, redoStack, saveStatus, clock,
                   nextUuid, editorVars, debounces, timers, inflight, deletes,
                   deleteDocs, nextTimer, remote, writeLog, burst, afterFail>>

\* fetchPages rejected: the error is logged, then setLoadingData(false)
FetchRejects(i) ==
    /\ i \in DOMAIN fetching
    /\ ~fetching[i].settled
    /\ fetching' = [fetching EXCEPT ![i].settled = TRUE]
    /\ lastOp' = Op("fetchRejects", fetching[i].workspaceId)
    /\ lastKey' = NoKey
    /\ UNCHANGED <<currentWorkspace, localVars, saveStatus, editorVars, syncVars,
                   writeLog, burst, afterFail>>

\* the pages stored for workspace 1 and for workspace 2
WorkspacePage(workspaceId) ==
    [NewPage(2 * workspaceId - 1, 2 * workspaceId, Untitled, 0, "page")
        EXCEPT !.workspaceId = workspaceId]

\* the state after bootWorkspace loaded workspace 1
InitWorkspace ==
    /\ currentWorkspace = 1
    /\ fetching = <<>>
    /\ pages = <<WorkspacePage(1)>>
    /\ activePageId = 0
    /\ navPending = FALSE
    /\ undoStack = <<>>
    /\ redoStack = <<>>
    /\ saveStatus = "saved"
    /\ clock = 0
    /\ nextUuid = 6
    /\ focusedBlockId = 0
    /\ slashMenuOpen = FALSE
    /\ slashMenuIndex = -1
    /\ collapsedBlocks = {}
    /\ suggestion = NoSuggestion
    /\ debounces = <<>>
    /\ timers = {}
    /\ inflight = {}
    /\ deletes = <<>>
    /\ deleteDocs = {}
    /\ nextTimer = 1
    /\ remote = [k \in Keys |->
                    IF k = DebounceKey(1, 1) THEN WorkspacePage(1)
                    ELSE IF k = DebounceKey(2, 3) THEN WorkspacePage(2)
                    ELSE NoPage]
    /\ cache = LoadedCache
    /\ writeLog = <<>>
    /\ burst = [k \in Keys |-> NoBurst]
    /\ afterFail = [k \in Keys |-> NoFail]
    /\ lastOp = [op |-> "init", key |-> 0, prev |-> <<>>, cont |-> "none"]
    /\ lastKey = NoKey

WorkspaceBudget == nextTimer <= WorkspaceSaves

WorkspaceSwitch ==
    /\ ~Loading
    /\ Len(fetching) < WorkspaceSwitches
    /\ \E workspaceId \in 1..Workspaces : HandleWorkspaceChange(workspaceId)

WorkspaceFetch == \E i \in DOMAIN fetching : FetchResolves(i) \/ FetchRejects(i)

\* the shortcuts of the document, which the spinner does not take away
WorkspaceUndoRedo == HandleUndo \/ HandleRedo

WorkspaceAddPage == ~Loading /\ WorkspaceBudget /\ HandleAddPage(0)

WorkspaceFavorite ==
    ~Loading /\ WorkspaceBudget /\ \E id \in PageIdsOf(pages) : HandleToggleFavorite(id)

WorkspaceWrite ==
    \/ \E t \in timers : FireTimer(t)
    \/ \E w \in inflight : WriteOk(w)

NextWorkspace ==
    \/ WorkspaceSwitch
    \/ WorkspaceFetch
    \/ WorkspaceUndoRedo
    \/ WorkspaceAddPage
    \/ WorkspaceFavorite
    \/ WorkspaceWrite

SpecWorkspace == InitWorkspace /\ [][NextWorkspace]_vars

----------------------------------------------------------------------------
(* The breadcrumbs of the active page, on the collections the store can    *)
(* return: a parent may be missing                                          *)

ChainPages == 3

\* one step of the loop: the page the loop goes on with, NoPage for undefined
BreadcrumbParentNone(ps, curr) == NoPage

BreadcrumbParent(ps, curr) ==
    IF curr.parentId # 0 THEN FindPage(ps, curr.parentId) ELSE NoPage

\* while (curr) { breadcrumbs.unshift(curr); curr = ... }
RECURSIVE BreadcrumbsFrom(_, _, _)
BreadcrumbsFrom(ps, curr, breadcrumbs) ==
    IF curr = NoPage THEN breadcrumbs
    ELSE BreadcrumbsFrom(ps, BreadcrumbParent(ps, curr), <<curr>> \o breadcrumbs)

\* the breadcrumbs rendered for the active page
Breadcrumbs == BreadcrumbsFrom(pages, FindPage(pages, activePageId), <<>>)

\* an id no page has
MissingPage == MaxUuid

\* the collections of ChainPages pages in which the parent of a page is
\* null, missing or an earlier page
ChainParents ==
    {f \in [1..ChainPages -> 0..MaxUuid] :
        \A i \in 1..ChainPages : f[i] \in {0, MissingPage} \cup 1..(i - 1)}

ChainCollection(f) ==
    [i \in 1..ChainPages |-> NewPage(i, ChainPages + i, Untitled, f[i], "page")]

\* the state after loadWorkspaceData returned such a collection
InitChain ==
    \E f \in ChainParents :
        /\ currentWorkspace = 1
        /\ fetching = <<>>
        /\ pages = ChainCollection(f)
        /\ activePageId = 0
        /\ navPending = FALSE
        /\ undoStack = <<>>
        /\ redoStack = <<>>
        /\ saveStatus = "saved"
        /\ clock = 0
        /\ nextUuid = 2 * ChainPages + 1
        /\ focusedBlockId = 0
        /\ slashMenuOpen = FALSE
        /\ slashMenuIndex = -1
        /\ collapsedBlocks = {}
        /\ suggestion = NoSuggestion
        /\ debounces = <<>>
        /\ timers = {}
        /\ inflight = {}
        /\ deletes = <<>>
        /\ deleteDocs = {}
        /\ nextTimer = 1
        /\ remote = [k \in Keys |-> FindPage(ChainCollection(f), k)]
        /\ cache = LoadedCache
        /\ writeLog = <<>>
        /\ burst = [k \in Keys |-> NoBurst]
        /\ afterFail = [k \in Keys |-> NoFail]
        /\ lastOp = [op |-> "init", key |-> 0, prev |-> <<>>, cont |-> "none"]
        /\ lastKey = NoKey

ChainSelect == \E id \in PageIdsOf(pages) : HandlePageSelect(id)

NextChain ==
    \/ ChainSelect
    \/ HandleUndo
    \/ HandleRedo

SpecChain == InitChain /\ [][NextChain]_vars

----------------------------------------------------------------------------
(* Deleting pages of a collection whose childIds the store returned        *)
(* corrupted: a page may list any page as its child, itself included       *)

CyclePages   == 3
CycleDeletes == 2

\* every page lists no child or one child
CycleChildren == [1..CyclePages -> {<<>>} \cup {<<j>> : j \in 1..CyclePages}]

\* the parent of page i: the first page that lists it, null when none does
CycleParent(f, i) ==
    IF \E j \in 1..CyclePages : f[j] = <<i>>
    THEN CHOOSE j \in 1..CyclePages :
            f[j] = <<i>> /\ \A k \in 1..(j - 1) : f[k] # <<i>>
    ELSE 0

CycleCollection(f) ==
    [i \in 1..CyclePages |->
        [NewPage(i, CyclePages + i, Untitled, CycleParent(f, i), "page")
            EXCEPT !.childIds = f[i]]]

\* the state after loadWorkspaceData returned such a collection
InitCycle ==
    \E f \in CycleChildren :
        /\ currentWorkspace = 1
        /\ fetching = <<>>
        /\ pages = CycleCollection(f)
        /\ activePageId = 0
        /\ navPending = FALSE
        /\ undoStack = <<>>
        /\ redoStack = <<>>
        /\ saveStatus = "saved"
        /\ clock = 0
        /\ nextUuid = 2 * CyclePages + 1
        /\ focusedBlockId = 0
        /\ slashMenuOpen = FALSE
        /\ slashMenuIndex = -1
        /\ collapsedBlocks = {}
        /\ suggestion = NoSuggestion
        /\ debounces = <<>>
        /\ timers = {}
        /\ inflight = {}
        /\ deletes = <<>>
        /\ deleteDocs = {}
        /\ nextTimer = 1
        /\ remote = [k \in Keys |-> FindPage(CycleCollection(f), k)]
        /\ cache = LoadedCache
        /\ writeLog = <<>>
        /\ burst = [k \in Keys |-> NoBurst]
        /\ afterFail = [k \in Keys |-> NoFail]
        /\ lastOp = [op |-> "init", key |-> 0, prev |-> <<>>, cont |-> "none"]
        /\ lastKey = NoKey

CycleDelete ==
    /\ Len(deletes) < CycleDeletes
    /\ \E id \in PageIdsOf(pages) : HandleDeletePage(id)

NextCycle ==
    \/ CycleDelete
    \/ HandleUndo
    \/ HandleRedo

SpecCycle == InitCycle /\ [][NextCycle]_vars

----------------------------------------------------------------------------
(* Navigation: two pages, one edited, the other opened and edited while    *)
(* the write of the first is still pending                                  *)

NavigateSaves == 3

NavigateBudget == nextTimer <= NavigateSaves

\* the state after loadWorkspaceData returned two pages and the first was opened
InitNavigate ==
    /\ currentWorkspace = 1
    /\ fetching = <<>>
    /\ pages = <<NewPage(1, 2, Untitled, 0, "page"), NewPage(4, 5, Untitled, 0, "page")>>
    /\ activePageId = 1
    /\ navPending = FALSE
    /\ undoStack = <<>>
    /\ redoStack = <<>>
    /\ saveStatus = "saved"
    /\ clock = 0
    /\ nextUuid = 6
    /\ focusedBlockId = 0
    /\ slashMenuOpen = FALSE
    /\ slashMenuIndex = -1
    /\ collapsedBlocks = {}
    /\ suggestion = NoSuggestion
    /\ debounces = <<>>
    /\ timers = {}
    /\ inflight = {}
    /\ deletes = <<>>
    /\ deleteDocs = {}
    /\ nextTimer = 1
    /\ remote = [k \in Keys |-> FindPage(pages, k)]
    /\ cache = LoadedCache
    /\ writeLog = <<>>
    /\ burst = [k \in Keys |-> NoBurst]
    /\ afterFail = [k \in Keys |-> NoFail]
    /\ lastOp = [op |-> "init", key |-> 0, prev |-> <<>>, cont |-> "none"]
    /\ lastKey = NoKey

\* typing one character at the end of the first block of the active page
NavigateType ==
    /\ NavigateBudget
    /\ activePageId # 0 /\ HasPage(pages, activePageId)
    /\ UpdateBlock(ActiveBlocks[1].id, [content |-> Append(ActiveBlocks[1].content, "a")])
    /\ UNCHANGED workspaceVars
    /\ lastKey' = NoKey

\* another page is opened from the sidebar
NavigateSelect == \E id \in PageIdsOf(pages) \ {activePageId} : HandlePageSelect(id)

NextNavigate ==
    \/ NavigateType
    \/ NavigateSelect
    \/ TimerFires
    \/ WriteSucceeds

SpecNavigate == InitNavigate /\ [][NextNavigate]_vars

----------------------------------------------------------------------------
(* Long histories: a page of the sidebar is expanded and collapsed *)

\* handleToggleExpand(id): history only, nothing is persisted
HandleToggleExpand(id) ==
    /\ SaveToHistory([i \in DOMAIN pages |->
                        IF pages[i].id = id
                        THEN [pages[i] EXCEPT !.isExpanded = ~pages[i].isExpanded]
                        ELSE pages[i]])
    /\ lastOp' = Op("toggleExpand", id)
    /\ UNCHANGED editorVars
    /\ UNCHANGED <<activePageId, navPending, saveStatus, clock, nextUuid, syncVars,
                   writeLog, burst, afterFail>>
    /\ UNCHANGED workspaceVars
    /\ lastKey' = NoKey

\* the state after loadWorkspaceData returned one page
InitHistory ==
    /\ currentWorkspace = 1
    /\ fetching = <<>>
    /\ pages = <<NewPage(1, 2, Untitled, 0, "page")>>
    /\ activePageId = 0
    /\ navPending = FALSE
    /\ undoStack = <<>>
    /\ redoStack = <<>>
    /\ saveStatus = "saved"
    /\ clock = 0
    /\ nextUuid = 3
    /\ focusedBlockId = 0
    /\ slashMenuOpen = FALSE
    /\ slashMenuIndex = -1
    /\ collapsedBlocks = {}
    /\ suggestion = NoSuggestion
    /\ debounces = <<>>
    /\ timers = {}
    /\ inflight = {}
    /\ deletes = <<>>
    /\ deleteDocs = {}
    /\ nextTimer = 1
    /\ remote = [k \in Keys |-> FindPage(pages, k)]
    /\ cache = LoadedCache
    /\ writeLog = <<>>
    /\ burst = [k \in Keys |-> NoBurst]
    /\ afterFail = [k \in Keys |-> NoFail]
    /\ lastOp = [op |-> "init", key |-> 0, prev |-> <<>>, cont |-> "none"]
    /\ lastKey = NoKey

\* the chevron of the page, or a call for an id that is no longer there
HistoryExpand == \E id \in {1, 3} : HandleToggleExpand(id)

HistoryUndo == HandleUndo

HistoryRedo == HandleRedo

NextHistory ==
    \/ HistoryExpand
    \/ HistoryUndo
    \/ HistoryRedo

SpecHistory == InitHistory /\ [][NextHistory]_vars

----------------------------------------------------------------------------
(* The save indicator when every write is accepted: timers fire and setDoc  *)
(* resolves sooner or later                                                 *)

IndicatorDelete == SyncBudget /\ \E i \in DOMAIN pages : HandleDeletePage(pages[i].id)

NextIndicator ==
    \/ SyncAddPage
    \/ TypeInTitle
    \/ SyncManualSave
    \/ SyncFavorite
    \/ SyncRename
    \/ IndicatorDelete
    \/ TimerFires
    \/ WriteSucceeds

\* an armed timer fires after its delay and a setDoc call that is not
\* rejected resolves: neither stays enabled for ever without happening
SpecIndicator ==
    Init /\ [][NextIndicator]_vars /\ WF_vars(TimerFires) /\ WF_vars(WriteSucceeds)

----------------------------------------------------------------------------
(* Deleting a page that has a sub-page, with edits under way *)

\* savePage calls around the delete
DeleteSaves == 2

DeleteBudget == nextTimer <= DeleteSaves

\* the state after loadWorkspaceData returned page 1 and its sub-page 4, and
\* page 1 was opened
InitDelete ==
    /\ currentWorkspace = 1
    /\ fetching = <<>>
    /\ pages = << [NewPage(1, 2, Untitled, 0, "page") EXCEPT !.childIds = <<4>>],
                  [NewPage(4, 5, Untitled, 0, "page") EXCEPT !.parentId = 1] >>
    /\ activePageId = 1
    /\ navPending = FALSE
    /\ undoStack = <<>>
    /\ redoStack = <<>>
    /\ saveStatus = "saved"
    /\ clock = 0
    /\ nextUuid = 6
    /\ focusedBlockId = 0
    /\ slashMenuOpen = FALSE
    /\ slashMenuIndex = -1
    /\ collapsedBlocks = {}
    /\ suggestion = NoSuggestion
    /\ debounces = <<>>
    /\ timers = {}
    /\ inflight = {}
    /\ deletes = <<>>
    /\ deleteDocs = {}
    /\ nextTimer = 1
    /\ remote = [k \in Keys |-> FindPage(pages, k)]
    /\ cache = LoadedCache
    /\ writeLog = <<>>
    /\ burst = [k \in Keys |-> NoBurst]
    /\ afterFail = [k \in Keys |-> NoFail]
    /\ lastOp = [op |-> "init", key |-> 0, prev |-> <<>>, cont |-> "none"]
    /\ lastKey = NoKey

\* typing one character at the end of the first block of the active page
DeleteType ==
    /\ DeleteBudget
    /\ activePageId # 0 /\ HasPage(pages, activePageId)
    /\ UpdateBlock(ActiveBlocks[1].id, [content |-> Append(ActiveBlocks[1].content, "a")])
    /\ UNCHANGED workspaceVars
    /\ lastKey' = NoKey

DeleteSelect == \E i \in DOMAIN pages : HandlePageSelect(pages[i].id)

DeleteFavorite == DeleteBudget /\ \E i \in DOMAIN pages : HandleToggleFavorite(pages[i].id)

\* the sidebar's delete entry of page 1
DeletePage == deletes = <<>> /\ HandleDeletePage(1)

DeleteSucceeds == \E d \in deleteDocs : DeleteOk(d)

NextDelete ==
    \/ DeleteType
    \/ DeleteSelect
    \/ DeleteFavorite
    \/ DeletePage
    \/ NavTimeout
    \/ TimerFires
    \/ WriteSucceeds
    \/ DeleteSucceeds

\* an armed timer fires after its delay and the calls of the document store
\* resolve: none of them stays enabled for ever without happening
SpecDelete ==
    /\ InitDelete /\ [][NextDelete]_vars
    /\ WF_vars(TimerFires) /\ WF_vars(WriteSucceeds) /\ WF_vars(DeleteSucceeds)

----------------------------------------------------------------------------
(* The remote copy: pages are added, edited, renamed and deleted, changes   *)
(* are undone and redone, every call of the document store is accepted      *)

RemotePages == 2

RemoteOps == 3

RemoteBudget == OpsDone < RemoteOps

RemoteAddPage ==
    /\ RemoteBudget
    /\ Len(pages) < RemotePages
    /\ \E parentId \in {0} \cup PageIdsOf(pages) : HandleAddPage(parentId)

RemoteCreateFolder == RemoteBudget /\ Len(pages) < RemotePages /\ HandleCreateFolder

\* typing one character at the end of the first block of the active page
RemoteType ==
    /\ RemoteBudget
    /\ activePageId # 0 /\ HasPage(pages, activePageId)
    /\ UpdateBlock(ActiveBlocks[1].id, [content |-> Append(ActiveBlocks[1].content, "a")])
    /\ UNCHANGED workspaceVars
    /\ lastKey' = NoKey

RemoteRename == RemoteBudget /\ \E i \in DOMAIN pages : HandleRenamePage(pages[i].id, <<"b">>)

RemoteFavorite == RemoteBudget /\ \E i \in DOMAIN pages : HandleToggleFavorite(pages[i].id)

RemoteDelete == RemoteBudget /\ \E i \in DOMAIN pages : HandleDeletePage(pages[i].id)

RemoteUndoRedo == HandleUndo \/ HandleRedo

NextRemote ==
    \/ RemoteAddPage
    \/ RemoteCreateFolder
    \/ RemoteType
    \/ RemoteRename
    \/ RemoteFavorite
    \/ RemoteDelete
    \/ RemoteUndoRedo
    \/ NavTimeout
    \/ TimerFires
    \/ WriteSucceeds
    \/ DeleteSucceeds

SpecRemote == Init /\ [][NextRemote]_vars

----------------------------------------------------------------------------
(* Keys in the block the slash menu is open for, and the focused block *)

\* setFocusedBlockId(id) and nothing else
SetFocus(id) ==
    /\ focusedBlockId' = id
    /\ lastOp' = Op("focus", activePageId)
    /\ UNCHANGED <<localVars, saveStatus, slashMenuOpen, slashMenuIndex, collapsedBlocks,
                   suggestion, syncVars, writeLog, burst, afterFail>>

\* onNavigateUp of the block at index: index > 0 && setFocusedBlockId(...)
OnNavigateUp(index) ==
    IF index > 0 THEN SetFocus(ActiveBlocks[index].id) ELSE NoEdit

\* onNavigateDown of the block at index
OnNavigateDown(index) ==
    IF index < Len(ActiveBlocks) - 1 THEN SetFocus(ActiveBlocks[index + 2].id) ELSE NoEdit

\* ArrowUp in the block at index; with the menu open for the block the key
\* only moves the highlight of the menu
KeyArrowUp(index) ==
    /\ activePageId # 0 /\ HasPage(pages, activePageId)
    /\ index + 1 \in DOMAIN ActiveBlocks
    /\ ActiveBlocks[index + 1].type # Code
    /\ UNCHANGED workspaceVars
    /\ lastKey' = KeyEvent("ArrowUp", index)
    /\ IF MenuOpenFor(index) THEN NoEdit ELSE OnNavigateUp(index)

KeyArrowDown(index) ==
    /\ activePageId # 0 /\ HasPage(pages, activePageId)
    /\ index + 1 \in DOMAIN ActiveBlocks
    /\ ActiveBlocks[index + 1].type # Code
    /\ UNCHANGED workspaceVars
    /\ lastKey' = KeyEvent("ArrowDown", index)
    /\ IF MenuOpenFor(index) THEN NoEdit ELSE OnNavigateDown(index)

\* Enter without Shift in the block the menu is open for, an entry being
\* highlighted: handleKeyDown of the block does nothing and the keydown
\* listener of the menu calls onSelect. (With no entry left by the filter the
\* key does nothing at all, which is KeyEnter.)
MenuEnter(index, type) ==
    /\ MenuOpenFor(index)
    /\ activePageId # 0 /\ HasPage(pages, activePageId)
    /\ index + 1 \in DOMAIN ActiveBlocks
    /\ ActiveBlocks[index + 1].type # Code
    /\ UNCHANGED workspaceVars
    /\ lastKey' = [KeyEvent("Enter", index) EXCEPT !.text = <<type>>]
    /\ SlashSelectEffect(type)

\* a click into the block at index: the mousedown is outside the menu, whose
\* onClose runs if it is open, and onFocus sets the focused block
BlockFocus(index) ==
    /\ activePageId # 0 /\ HasPage(pages, activePageId)
    /\ index + 1 \in DOMAIN ActiveBlocks
    /\ focusedBlockId' = ActiveBlocks[index + 1].id
    /\ slashMenuOpen' = FALSE
    /\ slashMenuIndex' = -1
    /\ lastOp' = Op("focus", activePageId)
    /\ UNCHANGED <<localVars, saveStatus, collapsedBlocks, suggestion, syncVars, writeLog,
                   burst, afterFail>>
    /\ UNCHANGED workspaceVars
    /\ lastKey' = NoKey

\* the keys are pressed in the block that has the focus
Focused(index) ==
    /\ index + 1 \in DOMAIN ActiveBlocks
    /\ focusedBlockId = ActiveBlocks[index + 1].id

MenuClick == \E index \in EditorIndexes : BlockFocus(index)

MenuSlash == \E index \in EditorIndexes : Focused(index) /\ OpenSlashMenu(index)

MenuArrow ==
    \E index \in EditorIndexes : Focused(index) /\ (KeyArrowUp(index) \/ KeyArrowDown(index))

MenuConfirm ==
    /\ EditorBudget
    /\ \E index \in EditorIndexes, type \in SlashTypes : Focused(index) /\ MenuEnter(index, type)

MenuKeyEnter == EditorBudget /\ \E index \in EditorIndexes : Focused(index) /\ KeyEnter(index)

MenuBackspace ==
    EditorBudget /\ \E index \in EditorIndexes : Focused(index) /\ KeyBackspace(index)

NextMenu ==
    \/ MenuClick
    \/ MenuSlash
    \/ MenuArrow
    \/ MenuConfirm
    \/ MenuKeyEnter
    \/ MenuBackspace
    \/ CloseSlashMenu
    \/ SlashInput
    \/ EditorUndoRedo

\* the pages of the slash menu, and one whose first block is an empty Text block
MenuBlocks ==
    SlashBlocks \cup { <<EditorBlock(2, Text, <<>>), EditorBlock(3, Text, <<"a">>)>> }

InitMenu == EditorInit(MenuBlocks)

SpecMenu == InitMenu /\ [][NextMenu]_vars

----------------------------------------------------------------------------
(* Properties of the synchronisation *)

\* the timers armed for key k by the calls of its current run
OwnTimers(k) == {t \in timers : t.key = k /\ t.id >= burst[k].first}

\* C1 (as claimed): Debounce coalescing.  For a run of n >= 1 savePage calls
\* for one key, each call finding no write in flight for the key and arriving
\* before the timer of the previous call has fired: until the timer of the
\* last call fires, the calls of the run have exactly one timer armed, carrying
\* the page of the last call; once it has fired, the calls of the run have
\* issued exactly one setDoc, with the page of the last call, and have no
\* timer armed.
C1_DebounceCoalescing ==
    \A k \in Keys :
        burst[k].clean =>
            IF burst[k].writes = 0
            THEN \E t \in timers :
                    /\ OwnTimers(k) = {t}
                    /\ t.page = burst[k].page
            ELSE /\ burst[k].writes = 1
                 /\ burst[k].wpage = burst[k].page
                 /\ OwnTimers(k) = {}

\* C2 (as claimed): once a newer savePage call for a key has been dispatched,
\* no timer armed by an earlier call for that key fires: every setDoc is issued
\* by the timer of the latest call for its key.
C2_SupersededTimerNeverFires ==
    \A i \in DOMAIN writeLog : writeLog[i].id = writeLog[i].latest

\* C3 (as claimed): when the write of a content edit or a manual save is
\* rejected, the indicator does not show saved once the failed write completed.
C3_FailedWriteNotSaved ==
    (lastOp.op = "writeFail" /\ lastOp.cont \in {"edit", "manual"})
        => saveStatus # "saved"

WritesAfter(k, at) == {i \in DOMAIN writeLog : i > at /\ writeLog[i].key = k}

\* C4 (as claimed): after a write for a page failed, no setDoc is issued for
\* that page until a later savePage call for it.
C4_NoWriteAfterFailure ==
    \A k \in Keys : afterFail[k].st # "none" => WritesAfter(k, afterFail[k].at) = {}

\* C4 (amended): a failed write leaves the page collection as it was, and when
\* nothing else was armed or in flight for the page at the time it failed, no
\* timer is armed and no setDoc is issued for the page until a later savePage
\* call for it.
C4_FailedWriteNotRetried ==
    /\ lastOp.op = "writeFail" => pages = lastOp.prev
    /\ \A k \in Keys :
          afterFail[k].st = "quiet" =>
              /\ WritesAfter(k, afterFail[k].at) = {}
              /\ ArmedFor(timers, k) = {}
              /\ InFlightFor(k) = {}

\* a write failed with nothing else scheduled for its page
C4_Witness ==
    lastOp.op = "writeFail" /\ afterFail[lastOp.key].st = "quiet" /\ pages # <<>>

\* C5 (as claimed): while the indicator shows saved, no timer is armed, no
\* write is in flight and no page's last completed write has failed.
C5_SavedMeansSynced ==
    saveStatus = "saved" =>
        /\ timers = {}
        /\ inflight = {}
        /\ \A k \in Keys : afterFail[k].st = "none"

\* C6 (as claimed): right after handleManualSave the only timer armed for the
\* active page is the one it armed, carrying the current local page; and no
\* setDoc issued after the manual save's write carries a page dispatched
\* before the manual save that differs from the page it wrote.
C6_ManualSaveFlushes ==
    /\ lastOp.op = "manualSave" =>
          \E t \in timers :
              /\ ArmedFor(timers, lastOp.key) = {t}
              /\ t.cont = "manual"
              /\ t.page = FindPage(pages, lastOp.key)
    /\ \A i, j \in DOMAIN writeLog :
          (i < j /\ writeLog[i].cont = "manual" /\ writeLog[j].key = writeLog[i].key
                 /\ writeLog[j].id < writeLog[i].id)
              => writeLog[j].page = writeLog[i].page

----------------------------------------------------------------------------
(* Properties of the document tree *)

ChildIdSet(ps, S) ==
    UNION {Range(ps[i].childIds) : i \in {j \in DOMAIN ps : ps[j].id \in S}}

\* the pages reachable from S through childIds
RECURSIVE ReachableFrom(_, _)
ReachableFrom(ps, S) ==
    LET T == S \cup (ChildIdSet(ps, S) \cap PageIdsOf(ps))
    IN  IF T = S THEN S ELSE ReachableFrom(ps, T)

\* C7: Delete cascade.  deletePage(P) removes exactly P and the pages reachable
\* from P through childIds; the pages that remain keep their order and their
\* fields, except that P's id is removed from the childIds of P's parent.
C7_DeleteCascade ==
    lastOp.op = "deletePage" =>
        LET prev    == lastOp.prev
            P       == FindPage(prev, lastOp.key)
            deleted == ReachableFrom(prev, {P.id})
            kept    == SelectSeq(prev, LAMBDA q : q.id \notin deleted)
        IN  /\ PageIdsOf(pages) = PageIdsOf(prev) \ deleted
            /\ Len(pages) = Len(kept)
            /\ \A i \in DOMAIN kept :
                  pages[i] = IF kept[i].id = P.parentId
                             THEN [kept[i] EXCEPT !.childIds =
                                      SelectSeq(kept[i].childIds, LAMBDA c : c # P.id)]
                             ELSE kept[i]

\* the deleted page had a parent, a child and a grandchild
C7_Witness ==
    /\ lastOp.op = "deletePage"
    /\ LET prev == lastOp.prev
           P    == FindPage(prev, lastOp.key)
       IN  /\ P.parentId # 0
           /\ HasPage(pages, P.parentId)
           /\ \E c \in Range(P.childIds) : FindPage(prev, c).childIds # <<>>
           /\ Len(pages) = Len(prev) - 3

ReferenceBlocks ==
    {pages[i].blocks[j] : <<i, j>> \in
        {ij \in (DOMAIN pages) \X (1..(MaxBlocks + 2)) :
            /\ ij[2] \in DOMAIN pages[ij[1]].blocks
            /\ pages[ij[1]].blocks[ij[2]].type \in {PageEmbed, PageLink}}}

\* C8 (as claimed): every PageEmbed or PageLink block of every page references
\* a page of the collection; in particular none references a deleted page.
C8_NoDanglingReferences ==
    \A b \in ReferenceBlocks : HasPage(pages, b.pageId)

\* C9: Tree link invariant.  For every page p, the ids in p.childIds are the
\* ids of the pages whose parentId is p.id.
C9_TreeLinkInvariant ==
    \A i \in DOMAIN pages :
        Range(pages[i].childIds) =
            {pages[j].id : j \in {k \in DOMAIN pages : pages[k].parentId = pages[i].id}}

\* a page that keeps one child after another child was deleted and restored
C9_Witness ==
    /\ lastOp.op \in {"undo", "redo", "deletePage"}
    /\ \E i \in DOMAIN pages : Len(pages[i].childIds) >= 2
    /\ Len(redoStack) > 0

----------------------------------------------------------------------------
(* Property of the title *)

PlainText(content) == Trim(StripTags(content))

\* C10 (as claimed): after a block edit the title of the edited page is the
\* plain text of its block at index 0 when that block is a Heading1 with
\* non-empty plain text, and "Untitled" otherwise.
C10_TitleFromFirstBlock ==
    (lastOp.op = "updateBlocks" /\ HasPage(pages, lastOp.key)) =>
        LET p == FindPage(pages, lastOp.key)
        IN  p.title = IF /\ Len(p.blocks) > 0
                         /\ p.blocks[1].type = Heading1
                         /\ PlainText(p.blocks[1].content) # <<>>
                      THEN PlainText(p.blocks[1].content)
                      ELSE Untitled

----------------------------------------------------------------------------
(* Properties of references *)

\* C11: Reference title mirror.  After renamePage(p, name): p.title is the
\* sanitized name, the first block of p is a Heading1 whose content is that
\* name, every PageEmbed/PageLink block of another page that references p has
\* that name as content, and every other block of every page is as before;
\* and in every state every PageEmbed/PageLink block that references another
\* page of the collection has the current title of that page as content.
C11_ReferenceTitleMirror ==
    /\ \A i \in DOMAIN pages : \A j \in DOMAIN pages[i].blocks :
          LET b == pages[i].blocks[j]
          IN  (b.type \in {PageEmbed, PageLink} /\ b.pageId # pages[i].id
                  /\ HasPage(pages, b.pageId))
              => b.content = FindPage(pages, b.pageId).title
    /\ lastOp.op = "renamePage" =>
          LET p    == FindPage(pages, lastOp.key)
              old  == FindPage(lastOp.prev, lastOp.key)
              kept == IF Len(old.blocks) > 0 /\ old.blocks[1].type = Heading1
                      THEN SubSeq(old.blocks, 2, Len(old.blocks)) ELSE old.blocks
          IN  /\ p.title = Sanitize(p.title)
              /\ p.blocks[1].type = Heading1
              /\ p.blocks[1].content = p.title
              /\ SubSeq(p.blocks, 2, Len(p.blocks)) = kept
              /\ \A i \in DOMAIN pages :
                    pages[i].id # p.id =>
                        /\ Len(pages[i].blocks) = Len(lastOp.prev[i].blocks)
                        /\ \A j \in DOMAIN pages[i].blocks :
                              pages[i].blocks[j] =
                                  IF IsReferenceTo(lastOp.prev[i].blocks[j], p.id)
                                  THEN [lastOp.prev[i].blocks[j] EXCEPT !.content = p.title]
                                  ELSE lastOp.prev[i].blocks[j]

\* a rename changed the content of a PageLink block of another page
C11_Witness ==
    /\ lastOp.op = "renamePage"
    /\ \E i \in DOMAIN pages : \E j \in DOMAIN pages[i].blocks :
          /\ pages[i].id # lastOp.key
          /\ pages[i].blocks[j].type = PageLink
          /\ pages[i].blocks[j].pageId = lastOp.key
          /\ pages[i].blocks[j].content # lastOp.prev[i].blocks[j].content
          /\ pages[i].blocks[j].content = <<"c">>

----------------------------------------------------------------------------
(* Properties of the block editor *)

\* C12: no page ever has an empty block sequence, whatever the editor did:
\* insert, delete, backspace, slash selection, reorder, undo or redo
C12_BlocksNeverEmpty ==
    \A i \in DOMAIN pages : Len(pages[i].blocks) >= 1

\* C12: Backspace was pressed on the empty Text block that is the only block
\* of the page, and the block is still there
C12_Witness ==
    /\ lastKey.key = "Backspace"
    /\ Len(lastKey.blocks) = 1
    /\ lastKey.blocks[1].type = Text /\ lastKey.blocks[1].content = <<>>
    /\ lastOp.op = "noEdit"
    /\ ActiveBlocks = lastKey.blocks

\* the block the last key event was on
KeyBlock == lastKey.blocks[lastKey.index + 1]

\* the last event was the given key on a block of the page
KeyWas(key) == lastKey.key = key /\ lastKey.index + 1 \in DOMAIN lastKey.blocks

\* the last event was Backspace on the page-title block (index 0, Heading1)
\* with empty content
TitleBackspace ==
    /\ KeyWas("Backspace")
    /\ lastKey.index = 0
    /\ KeyBlock.type = Heading1
    /\ TextContent(KeyBlock.content) = <<>>

KeyBlockEmpty ==
    IF KeyBlock.type = Code THEN KeyBlock.content = <<>>
    ELSE TextContent(KeyBlock.content) = <<>>

\* the last event was Backspace on an empty block other than the page title
\* and other than a PageEmbed or PageLink block
EmptyBackspace ==
    /\ KeyWas("Backspace")
    /\ KeyBlockEmpty
    /\ ~IsPageTitle(lastKey.index, KeyBlock)
    /\ KeyBlock.type \notin {PageEmbed, PageLink}

\* the blocks the key event met, the block it was on turned to Text in place
KeyBlockDemoted == [lastKey.blocks EXCEPT ![lastKey.index + 1].type = Text]

\* the blocks the key event met without the block it was on; a page's only
\* block stays
KeyBlockRemoved ==
    IF Len(lastKey.blocks) <= 1 THEN lastKey.blocks
    ELSE SelectSeq(lastKey.blocks, LAMBDA b : b.id # KeyBlock.id)

\* C14 (as claimed): Backspace on an empty block of a kind other than Text,
\* not the title and not a PageEmbed or PageLink, turns the block to Text in
\* place, with the same id, position and content, for every such kind,
\* Divider included
C14_EmptyBackspaceDemotes ==
    (EmptyBackspace /\ KeyBlock.type # Text) => ActiveBlocks = KeyBlockDemoted

\* C14 (amended): Backspace on an empty block of a kind other than Text,
\* Divider and Code, not the title and not a PageEmbed or PageLink, turns the
\* block to Text in place, with the same id, position and content; an empty
\* Divider or Code block is removed instead, unless it is the page's only block
C14_EmptyBackspaceDemotesOrRemoves ==
    (EmptyBackspace /\ KeyBlock.type # Text) =>
        IF KeyBlock.type \in {Divider, Code}
        THEN ActiveBlocks = KeyBlockRemoved
        ELSE ActiveBlocks = KeyBlockDemoted

\* C14: Backspace was pressed on an empty Quote block after the first block,
\* which is a Text block now
C14_Witness ==
    /\ EmptyBackspace
    /\ lastKey.index = 1
    /\ KeyBlock.type = Quote
    /\ ActiveBlocks[2].type = Text /\ ActiveBlocks[2].id = KeyBlock.id

\* the ids of a block sequence, in order
BlockIds(blocks) == [i \in DOMAIN blocks |-> blocks[i].id]

ReferenceBackspace ==
    KeyWas("Backspace") /\ KeyBlock.type \in {PageEmbed, PageLink}

\* what C16 says of the pages: the page a PageEmbed embedded is deleted, the
\* page a PageLink linked remains
ReferenceTargetSettled ==
    IF KeyBlock.type = PageEmbed THEN ~HasPage(pages, KeyBlock.pageId)
    ELSE HasPage(pages, KeyBlock.pageId)

InsertRequested ==
    \/ /\ KeyWas("Enter")
       /\ KeyBlock.type # Code
       /\ TextContent(KeyBlock.content) # <<"-", "-", "-">>
       /\ ~(slashMenuOpen /\ slashMenuIndex = lastKey.index)
    \/ KeyWas("Shift-Enter")

\* every id in use in a page collection: pages and their blocks
IdsIn(ps) ==
    {ps[i].id : i \in DOMAIN ps}
    \cup UNION {{ps[i].blocks[j].id : j \in DOMAIN ps[i].blocks} : i \in DOMAIN ps}

\* C17: inserting after index i yields a sequence one longer, the blocks up to
\* i and those after i unchanged around the new block at i + 1, which has a
\* fresh id, the requested kind and empty content
C17_InsertAfter ==
    InsertRequested =>
        LET old == lastKey.blocks
            i   == lastKey.index + 1
        IN  /\ Len(ActiveBlocks) = Len(old) + 1
            /\ SubSeq(ActiveBlocks, 1, i) = SubSeq(old, 1, i)
            /\ SubSeq(ActiveBlocks, i + 2, Len(ActiveBlocks)) = SubSeq(old, i + 1, Len(old))
            /\ ActiveBlocks[i + 1].id \notin IdsIn(lastOp.prev)
            /\ ActiveBlocks[i + 1].type = OnAddNextKind(KeyBlock.type)
            /\ ActiveBlocks[i + 1].content = <<>>

\* C17: Enter was pressed on the first of two blocks, a block was asked
\* for and stands between them
C17_Witness ==
    /\ InsertRequested
    /\ lastKey.index = 0 /\ Len(lastKey.blocks) = 2
    /\ Len(ActiveBlocks) = 3
    /\ ActiveBlocks[2].content = <<>>
    /\ ActiveBlocks[3] = lastKey.blocks[2]

\* C18: no page holds more blocks than the configured maximum, and an
\* insertion asked for on a page that holds the maximum is refused: the blocks
\* stay as they were
C18_CapacityGuard ==
    /\ \A i \in DOMAIN pages : Len(pages[i].blocks) <= Capacity
    /\ (InsertRequested /\ Len(lastKey.blocks) >= Capacity) => ActiveBlocks = lastKey.blocks

\* the kind C19 gives the block a split adds after a block of the given kind
SplitKind(type) == IF type \in {Bullet, Number, Todo, Toggle} THEN type ELSE Text

\* C19: Enter without Shift inserts exactly one block right after the current
\* one; its kind is the current kind for Bullet, Number, Todo and Toggle, and
\* Text for every other kind, Code included
C19_SplitOnEnter ==
    KeyWas("Enter") =>
        LET old == lastKey.blocks
            i   == lastKey.index + 1
        IN  /\ Len(ActiveBlocks) = Len(old) + 1
            /\ SubSeq(ActiveBlocks, 1, i) = SubSeq(old, 1, i)
            /\ SubSeq(ActiveBlocks, i + 2, Len(ActiveBlocks)) = SubSeq(old, i + 1, Len(old))
            /\ ActiveBlocks[i + 1].type = SplitKind(KeyBlock.type)

\* the trigger table as C20 has it; "none" when the text is no trigger
ClaimedShorthand(cleanText) ==
    IF cleanText \in {Hashes(n) : n \in 1..6}
    THEN <<Heading1, Heading2, Heading3, Heading4, Heading5, Heading6>>[Len(cleanText)]
    ELSE IF cleanText = <<">">> THEN Quote
    ELSE IF cleanText \in {<<"-">>, <<"*">>} THEN Bullet
    ELSE IF cleanText = <<"[", "]">> THEN Todo
    ELSE IF cleanText = <<"1", ".">> THEN Number
    ELSE IF cleanText = <<"-", "-", "-">> THEN Divider
    ELSE IF cleanText = <<Backtick, Backtick, Backtick>> THEN Code
    ELSE "none"

HeadingTypes == {Heading1, Heading2, Heading3, Heading4, Heading5, Heading6}

\* C20: typing a trigger and a space into a Text or heading block turns the
\* block into the kind of the trigger ('#' to '######' into Heading1 to
\* Heading6, each run of '#' into its own level, '>' Quote, '-' and '*' Bullet,
\* '[]' Todo, '1.' Number, '---' Divider, three grave accents Code) with empty
\* content and the same id; any other text is stored and converts nothing; the
\* converted block, being empty, is not converted again by another pass
C20_ShorthandConversion ==
    (KeyWas("input") /\ KeyBlock.type \in {Text} \cup HeadingTypes) =>
        LET text    == TextContent(lastKey.text)
            claimed == IF EndsWithSpace(text) THEN ClaimedShorthand(Trim(text)) ELSE "none"
            i       == lastKey.index + 1
        IN  IF claimed # "none"
            THEN /\ ActiveBlocks = [lastKey.blocks EXCEPT ![i].type = claimed,
                                                          ![i].content = <<>>]
                 /\ InputUpdates(ActiveBlocks[i].content) = [content |-> <<>>]
            ELSE ActiveBlocks = [lastKey.blocks EXCEPT ![i].content = lastKey.text]

\* C21: typing into a block whose kind is neither Text nor a heading (Todo,
\* Bullet, Number, Quote, Toggle, Callout, ...) leaves the kind of the block
\* as it was, whatever was typed, a trigger and a space included
C21_ShorthandOnlyOnTextOrHeading ==
    (KeyWas("input") /\ KeyBlock.type \notin {Text} \cup HeadingTypes) =>
        ActiveBlocks[lastKey.index + 1].type = KeyBlock.type

----------------------------------------------------------------------------
(* Properties of the rendering *)

\* some collapsed heading before position i covers the block at i: no
\* heading of its level or above stands strictly between them, and the block
\* at i is no such heading itself
CoveredByCollapsed(blocks, collapsed, i) ==
    \E j \in 1..(i - 1) :
        LET k == HeadingLevel(blocks[j].type)
        IN  /\ k > 0 /\ blocks[j].id \in collapsed
            /\ \A m \in (j + 1)..(i - 1) :
                  ~(HeadingLevel(blocks[m].type) > 0 /\ HeadingLevel(blocks[m].type) <= k)
            /\ ~(HeadingLevel(blocks[i].type) > 0 /\ HeadingLevel(blocks[i].type) <= k)

\* the sequence H1, H2, H3, H2 of the example, the first H2 collapsed
ExampleHeadings ==
    <<Block(21, Heading1, <<>>, 0), Block(22, Heading2, <<>>, 0),
      Block(23, Heading3, <<>>, 0), Block(24, Heading2, <<>>, 0)>>

NumbersRightBefore(blocks, collapsed, i) ==
    {j \in 1..(i - 1) :
        /\ blocks[j].type = Number /\ ~IsHidden(blocks, collapsed, j)
        /\ \A m \in (j + 1)..(i - 1) :
              IsHidden(blocks, collapsed, m) \/ blocks[m].type = Number}

\* the sequence Number, Number, Text, Number of the example
ExampleList ==
    <<Block(21, Number, <<>>, 0), Block(22, Number, <<>>, 0),
      Block(23, Text, <<>>, 0), Block(24, Number, <<>>, 0)>>

C24_AbsentBlockNoOp ==
    /\ lastOp.op # "TypeError"
    /\ lastKey.key = "stale" => ActiveBlocks = lastKey.blocks

----------------------------------------------------------------------------
(* Properties of the asynchronous completions *)

\* C25: a completion arriving after a local edit keeps that edit: the end of
\* a remote write leaves the pages as they are, and the arrival of a
\* suggestion changes nothing of the page but the content of the block it
\* was asked for, to which it appends a space and the text
C25_LocalEditsKept ==
    /\ lastOp.op \in {"writeOk", "writeFail"} => pages = lastOp.prev
    /\ lastOp.op = "suggestion" =>
          LET before == FindPage(lastOp.prev, lastOp.key).blocks
              after  == FindPage(pages, lastOp.key).blocks
          IN  after = [i \in DOMAIN before |->
                          IF i = lastKey.index + 1
                          THEN [before[i] EXCEPT !.content = @ \o <<" ">> \o lastKey.text]
                          ELSE before[i]]

----------------------------------------------------------------------------
(* Properties of the workspaces *)

\* C26: once the pages of the current workspace are loaded, the pages in
\* memory are pages of the current workspace only, and every write armed,
\* issued or in flight under a workspace carries a page of that workspace,
\* also after a switch of workspace followed by undo or redo
C26_WorkspaceIsolation ==
    /\ ~Loading => \A i \in DOMAIN pages : pages[i].workspaceId = currentWorkspace
    /\ \A t \in timers \cup inflight : t.page.workspaceId = t.workspaceId
    /\ \A i \in DOMAIN writeLog : writeLog[i].page.workspaceId = writeLog[i].workspaceId

----------------------------------------------------------------------------
(* Properties of the block ids *)

IdsOf(blocks) == {blocks[i].id : i \in DOMAIN blocks}

UniqueIds(blocks) ==
    \A i \in DOMAIN blocks, j \in DOMAIN blocks : blocks[i].id = blocks[j].id => i = j

\* the ids of blocks that other has too, in the order of blocks
KeptIds(blocks, other) == SelectSeq(BlockIds(blocks), LAMBDA id : id \in IdsOf(other))

\* the page an edit of the editor changed, before and after it
EditedBefore == FindPage(lastOp.prev, lastOp.key).blocks
EditedAfter  == FindPage(pages, lastOp.key).blocks
EditDone ==
    /\ lastOp.op = "updateBlocks"
    /\ HasPage(lastOp.prev, lastOp.key)
    /\ HasPage(pages, lastOp.key)

\* C27: the ids of the blocks of a page are pairwise different, and an edit
\* (update, insertion, removal, reordering, shorthand conversion, demotion,
\* slash selection) gives no block another id: it brings a new id or takes
\* one away, never both, and the blocks that stay keep their order, or, for
\* a reordering, are the very same blocks
C27_BlockIdsStable ==
    /\ \A i \in DOMAIN pages : UniqueIds(pages[i].blocks)
    /\ EditDone =>
          /\ IdsOf(EditedAfter) \subseteq IdsOf(EditedBefore)
                \/ IdsOf(EditedBefore) \subseteq IdsOf(EditedAfter)
          /\ \/ KeptIds(EditedAfter, EditedBefore) = KeptIds(EditedBefore, EditedAfter)
             \/ /\ Len(EditedAfter) = Len(EditedBefore)
                /\ Range(EditedAfter) = Range(EditedBefore)

\* Enter put a block with a fresh id into a page of two blocks
C27_Witness ==
    /\ EditDone
    /\ KeyWas("Enter")
    /\ Len(EditedBefore) = 2
    /\ Len(EditedAfter) = 3
    /\ Cardinality(IdsOf(EditedAfter)) = 3

----------------------------------------------------------------------------
(* Properties of the page tree *)

\* following parentId from the page with the given id ends at a root (a page
\* whose parentId is null) within fuel steps
RECURSIVE ReachesRoot(_, _, _)
ReachesRoot(ps, id, fuel) ==
    IF ~HasPage(ps, id) THEN FALSE
    ELSE IF FindPage(ps, id).parentId = 0 THEN TRUE
    ELSE IF fuel = 0 THEN FALSE
    ELSE ReachesRoot(ps, FindPage(ps, id).parentId, fuel - 1)

\* C28: the page tree is closed and acyclic after addPage, createFolder,
\* deletePage, undo and redo: every parentId that is not null is the id of a
\* page of the collection, and the parent chain of every page ends at a page
\* whose parentId is null
C28_TreeAcyclicClosed ==
    \A i \in DOMAIN pages :
        /\ pages[i].parentId # 0 => HasPage(pages, pages[i].parentId)
        /\ ReachesRoot(pages, pages[i].id, Len(pages))

\* a page was deleted with a descendant of its own, under a parent that stays
C28_Witness ==
    /\ lastOp.op = "deletePage"
    /\ Len(lastOp.prev) >= Len(pages) + 2
    /\ \E i \in DOMAIN pages : pages[i].parentId # 0

----------------------------------------------------------------------------
(* Property of the breadcrumbs *)

\* C29: the breadcrumbs of the active page are a chain of pages, each the
\* parent of the next, that ends at the active page; it starts at a root, or,
\* when a parent is missing from the collection, at the last page whose
\* parent could not be found
C29_AncestorChain ==
    (activePageId # 0 /\ HasPage(pages, activePageId)) =>
        LET chain == Breadcrumbs
        IN  /\ Len(chain) >= 1
            /\ chain[Len(chain)] = FindPage(pages, activePageId)
            /\ \A i \in 1..(Len(chain) - 1) :
                  /\ chain[i] = FindPage(pages, chain[i].id)
                  /\ chain[i + 1].parentId = chain[i].id
            /\ chain[1].parentId = 0 \/ ~HasPage(pages, chain[1].parentId)

\* the page opened has a parent whose own parent is missing: the chain
\* starts at that parent
C29_Witness ==
    /\ lastOp.op = "pageSelect"
    /\ activePageId # 0
    /\ Len(Breadcrumbs) = 2
    /\ Breadcrumbs[1].parentId = MissingPage

----------------------------------------------------------------------------
(* Property of deletePage on corrupted data *)

\* C30: deleting a page terminates whatever the childIds hold: when they
\* form a cycle the ids to delete are still collected, and the recursion
\* does not run until the stack overflows
C30_DeleteTerminates == lastOp.op # "RangeError"

----------------------------------------------------------------------------
(* Property of navigation *)

\* the step opens a page or edits one, and the page is not the one of key k
ElsewhereStep(k) ==
    /\ lastOp'.op \in {"pageSelect", "updateBlocks"}
    /\ lastOp'.key # k

\* the timer armed by the latest savePage call for its page
LatestTimers == {t \in timers : t.id = burst[t.key].tid}

\* C31: opening another page, and editing it, cancels no pending write of a
\* page: the timers armed for the other keys stay armed, and the timer of
\* the latest edit of a page carries the blocks and the title that edit left
C31_NavigationKeepsWrites ==
    /\ [][\A k \in Keys : ElsewhereStep(k) => ArmedFor(timers', k) = ArmedFor(timers, k)]_vars
    /\ [](\A t \in LatestTimers :
            /\ HasPage(pages, t.page.id)
            /\ t.page.blocks = FindPage(pages, t.page.id).blocks
            /\ t.page.title = FindPage(pages, t.page.id).title)

\* the write of page 1 is issued while page 4 is open and has been edited
C31_Witness ==
    /\ lastOp.op = "fireTimer"
    /\ lastOp.key = 1
    /\ activePageId = 4
    /\ FindPage(pages, 4).blocks # NewPage(4, 5, Untitled, 0, "page").blocks
    /\ writeLog[Len(writeLog)].page.blocks = FindPage(pages, 1).blocks
    /\ FindPage(pages, 1).blocks # NewPage(1, 2, Untitled, 0, "page").blocks


\* C32: right after savePage(w, p), before the timer fires, the localStorage
\* item of workspace w holds p in its latest state, once, and the items of the
\* other workspaces are unchanged.
SavedNow == {t \in timers' : t.id >= nextTimer}

C32_CacheMirror ==
    [][\A t \in SavedNow :
          /\ cache'[t.workspaceId].present
          /\ \E i \in DOMAIN cache'[t.workspaceId].pages :
                /\ cache'[t.workspaceId].pages[i] = t.page
                /\ \A j \in DOMAIN cache'[t.workspaceId].pages :
                      cache'[t.workspaceId].pages[j].id = t.page.id => j = i
          /\ \A w \in 1..Workspaces : w # t.workspaceId => cache'[w] = cache[w]]_vars

\* C32: a page was saved into a workspace whose item is missing from localStorage
C32_Counterexample ==
    \E t \in timers : /\ ~cache[t.workspaceId].present
                      /\ lastOp.op \in {"addPage", "toggleFavorite"}
                      /\ t.id = nextTimer - 1

\* C33: the undo stack and the redo stack never hold more than 50 snapshots,
\* and a step that leaves the pages equal to what they were pushes nothing and
\* keeps the redo stack.
C33_HistoryBounded ==
    /\ [](Len(undoStack) <= HistoryCap /\ Len(redoStack) <= HistoryCap)
    /\ [][pages' = pages => undoStack' = undoStack /\ redoStack' = redoStack]_vars

\* C33: the oldest snapshot was dropped from a full history, one step was
\* undone, and a toggle for an absent id then changed nothing
C33_Witness ==
    /\ Len(undoStack) + Len(redoStack) = HistoryCap
    /\ Len(redoStack) > 0
    /\ ~undoStack[1][1].isExpanded
    /\ lastOp.op = "toggleExpand"
    /\ lastOp.prev = pages

\* C34: the slash menu opens only on a '/' key and records the index of the
\* block; Escape, a click outside and a confirmed selection leave it closed
\* with index -1; a confirmed selection gives the anchor block the selected
\* kind, drops one trailing '/' of its content and changes nothing else.
WithoutSlash(content) ==
    IF content # <<>> /\ content[Len(content)] = "/" THEN DropLast(content) ELSE content

SelectedOn(old, i, type) ==
    [old EXCEPT ![i] = [old[i] EXCEPT !.type = type, !.content = WithoutSlash(old[i].content)]]

C34_SlashMenuMachine ==
    /\ [](slashMenuOpen <=> slashMenuIndex # -1)
    /\ [][/\ (~slashMenuOpen /\ slashMenuOpen') =>
                /\ lastKey'.key = "/"
                /\ slashMenuIndex' = lastKey'.index
                /\ lastKey'.index + 1 \in DOMAIN lastKey'.blocks
          /\ lastKey'.key \in {"Escape", "select"} =>
                ~slashMenuOpen' /\ slashMenuIndex' = -1
          /\ (lastKey'.key = "select" /\ lastKey'.index + 1 \in DOMAIN lastKey'.blocks) =>
                ActiveBlocks' = SelectedOn(lastKey'.blocks, lastKey'.index + 1,
                                           lastKey'.text[1])]_vars

\* C34: the same without the selections whose anchor is past the end of the
\* sequence
C34_LiveAnchor ==
    /\ [](slashMenuOpen <=> slashMenuIndex # -1)
    /\ [][/\ (~slashMenuOpen /\ slashMenuOpen') =>
                /\ lastKey'.key = "/"
                /\ slashMenuIndex' = lastKey'.index
                /\ lastKey'.index + 1 \in DOMAIN lastKey'.blocks
          /\ (\/ lastKey'.key = "Escape"
              \/ lastKey'.key = "select" /\ lastKey'.index + 1 \in DOMAIN lastKey'.blocks) =>
                ~slashMenuOpen' /\ slashMenuIndex' = -1
          /\ (lastKey'.key = "select" /\ lastKey'.index + 1 \in DOMAIN lastKey'.blocks) =>
                ActiveBlocks' = SelectedOn(lastKey'.blocks, lastKey'.index + 1,
                                           lastKey'.text[1])]_vars

\* C35: after an operation that changed the pages from S to S', undo sets them
\* to S and a redo right after it sets them to S'; a change made after an undo
\* empties the redo stack, and redo does nothing on an empty stack.
C35_UndoRedoRoundTrip ==
    [][/\ (lastOp'.op = "undo" /\ lastOp.op \notin {"undo", "redo"} /\ lastOp.prev # pages) =>
             pages' = lastOp.prev
       /\ (lastOp'.op = "redo" /\ lastOp.op = "undo") => pages' = lastOp.prev
       /\ (lastOp'.op \notin {"undo", "redo"} /\ pages' # pages) => redoStack' = <<>>
       /\ (lastOp'.op = "redo" /\ redoStack = <<>>) => lastOp.op = "redo" /\ pages' = pages]_vars

\* C35: a change was undone and redone, and the pages are again what the
\* change had made them
C35_Witness ==
    /\ lastOp.op = "redo"
    /\ lastOp.prev # pages
    /\ Len(pages) >= 2
    /\ undoStack # <<>>
    /\ undoStack[Len(undoStack)] = lastOp.prev

\* C36: with every write accepted, an indicator that shows unsaved shows saved
\* again later (the content edits are finitely many), also when a structural
\* save of the page or its deletion cancelled the timer of the edit.
C36_IndicatorSettles == (saveStatus = "unsaved") ~> (saveStatus = "saved")

\* C37: once deletePage was dispatched for page 1, the document store ends up
\* without page 1 and without its deleted sub-page 4, and stays that way: no
\* write puts a deleted page back after the remote delete.
DeletedIds == {1, 4} \ PageIdsOf(pages)

C37_NoResurrection ==
    (deletes # <<>>) ~> [](\A id \in DeletedIds : remote[DebounceKey(1, id)] = NoPage)

\* C37: everything has settled after the delete of page 1, and the store still
\* holds the sub-page that was deleted with it
C37_SubPageLeft ==
    /\ deletes # <<>> /\ deleteDocs = {} /\ timers = {} /\ inflight = {}
    /\ writeLog = <<>>
    /\ ~HasPage(pages, 4)
    /\ remote[DebounceKey(1, 4)] # NoPage

\* C38: whenever no timer is armed and no call of the document store is
\* under way (none was rejected), the store holds a record with the same
\* blocks, title, parentId and childIds for every page of the collection, and
\* no page the collection does not have.
Quiescent == timers = {} /\ inflight = {} /\ deleteDocs = {}

StoredAs(p) == remote[DebounceKey(currentWorkspace, p.id)]

C38_RemoteConsistent ==
    Quiescent =>
        /\ \A i \in DOMAIN pages :
              /\ StoredAs(pages[i]) # NoPage
              /\ StoredAs(pages[i]).blocks = pages[i].blocks
              /\ StoredAs(pages[i]).title = pages[i].title
              /\ StoredAs(pages[i]).parentId = pages[i].parentId
              /\ StoredAs(pages[i]).childIds = pages[i].childIds
        /\ \A id \in 1..MaxUuid :
              remote[DebounceKey(currentWorkspace, id)] # NoPage => HasPage(pages, id)

\* C38: a sub-page was added to a page that is not a folder, every write was
\* accepted, and the stored parent does not list the sub-page
C38_ParentNotSaved ==
    /\ Quiescent
    /\ lastOp.op = "writeOk"
    /\ undoStack # <<>> /\ redoStack = <<>> /\ deletes = <<>>
    /\ \E i \in DOMAIN pages :
          /\ pages[i].type = "page" /\ pages[i].childIds # <<>>
          /\ StoredAs(pages[i]) # NoPage
          /\ StoredAs(pages[i]).childIds = <<>>

\* C39: with the slash menu open for a block, Enter without Shift, ArrowUp and
\* ArrowDown in that block leave the length of the sequence and the focused
\* block as they were, and Enter changes only what confirming the highlighted
\* entry changes.
C39_MenuKeysStay ==
    [][(/\ lastKey'.key \in {"Enter", "ArrowUp", "ArrowDown"}
        /\ slashMenuOpen /\ slashMenuIndex = lastKey'.index
        /\ lastKey'.index + 1 \in DOMAIN lastKey'.blocks) =>
          /\ Len(ActiveBlocks') = Len(ActiveBlocks)
          /\ focusedBlockId' = focusedBlockId
          /\ lastKey'.key # "Enter" => ActiveBlocks' = ActiveBlocks
          /\ lastKey'.key = "Enter" =>
                \/ lastKey'.text = <<>> /\ ActiveBlocks' = ActiveBlocks /\ slashMenuOpen'
                \/ /\ lastKey'.text # <<>>
                   /\ ActiveBlocks' = SelectedOn(ActiveBlocks, lastKey'.index + 1,
                                                 lastKey'.text[1])]_vars

\* C39: Enter confirmed an entry for the second of two blocks, which keeps the
\* focus, and the page still has two blocks
C39_Witness ==
    /\ lastKey.key = "Enter" /\ lastKey.text # <<>> /\ lastKey.index = 1
    /\ ~slashMenuOpen
    /\ Len(ActiveBlocks) = 2
    /\ ActiveBlocks[2].type = lastKey.text[1]
    /\ ActiveBlocks[2].type # lastKey.blocks[2].type
    /\ focusedBlockId = ActiveBlocks[2].id

\* C40: the focused block id is null or the id of a block of the sequence the
\* editor shows, also after the block at index 0 was deleted, after the arrow
\* keys at the first and the last block, and after an insertion.
C40_FocusValid ==
    (activePageId # 0 /\ HasPage(pages, activePageId)) =>
        \/ focusedBlockId = 0
        \/ \E i \in DOMAIN ActiveBlocks : ActiveBlocks[i].id = focusedBlockId

\* C40: Backspace removed the focused block at index 0 and the focus still
\* names it
C40_FirstBlockRemoved ==
    /\ lastKey.key = "Backspace" /\ lastKey.index = 0
    /\ Len(lastKey.blocks) = 2 /\ Len(ActiveBlocks) = 1
    /\ focusedBlockId = lastKey.blocks[1].id
    /\ ActiveBlocks[1].id # focusedBlockId
====
